---- MODULE Spec2Model ----
(***************************************************************************)
(* Model of RedditStoriesGen: the /generate job queue and its single       *)
(* background worker (src/api.py), the step-based pipeline of               *)
(* RedditShortEngine (src/ShortGen/engine/reddit_short_engine.py), the      *)
(* scheduler and its fetch cooldown (src/channel_scheduler.py), the tables  *)
(* of the posts (src/scrapper.py) and the process monitor (src/monitor.py). *)
(***************************************************************************)
EXTENDS Integers, Sequences, FiniteSets, TLC

\* ------------------------------------------------------------------ bounds
\* number of /generate submissions explored
MaxJobs == 3
\* number of calls of generate_video_sync explored over the working directories
MaxRuns == 2
\* number of posts the subreddits ever offer, and of publish triggers that fire
MaxPosts == 3
MaxTriggers == 3
\* the clock of the scheduler's host: the readings of datetime.now() per second,
\* the seconds of an hour of the model, and the last reading explored
TicksPerSecond == 2
SecondsPerHour == 2
MaxClock == 5
\* the posts of a subreddit's response, and the number of responses processed
MaxBatch == 2
MaxFetches == 2
\* the number of checks the monitor makes after its initial check
MaxChecks == 5

\* ------------------------------------------------------------- constants
\* short_id values a caller may send (a caller may reuse one)
ShortIds == {"a", "b"}
\* the value of the worker's "job" while it holds none
NoJob == [id |-> 0, short_id |-> "none"]

\* exceptions generate_video_sync raises: its own (api.py:89,91,131) and any
\* exception of a pipeline step, which propagates out of makeContent()
PipelineErrors ==
    { [cls |-> "FileNotFoundError",
       args |-> <<"Video generation finished, but output file not found.">>],
      [cls |-> "ValueError", args |-> <<"step failed">>] }

\* str(e) of a Python exception: the empty string without arguments, the
\* argument itself with one, the tuple of arguments otherwise.
StrOfException(e) ==
    IF Len(e.args) = 0 THEN ""
    ELSE IF Len(e.args) = 1 THEN e.args[1]
    ELSE "(tuple of arguments)"

\* os.path.join(OUTPUT_FOLDER, short_id, "video.mp4")
FinalVideoPath(short_id) == <<"output", short_id, "video.mp4">>

VARIABLES
    \* ---- src/api.py
    job_queue,        \* asyncio.Queue(): the entries not yet dequeued, oldest first
    unfinished_tasks, \* asyncio.Queue._unfinished_tasks (put +1, task_done -1)
    nSubmitted,       \* number of /generate requests accepted so far
    response,         \* the body of the last response of /generate
    wpc,              \* where process_queue is: "get", "run", "hook", "cancelled"
    job,              \* the job process_queue holds (NoJob while waiting)
    outcome,          \* what the awaited thread delivered: a path or an exception
    pending,          \* payload of the send_webhook call in progress
    threads,          \* ids of the jobs whose generate_video_sync is executing
    log,              \* what the worker did, in order
    cancelled,        \* lifespan shutdown has cancelled the worker task
    \* ---- src/ShortGen/engine/reddit_short_engine.py
    rec,              \* the engine's _db_ fields
    gpc,              \* the makeContent() generator: "none", "created", "yielded",
                      \* "done", "failed", "closed"
    currentStep,      \* the generator's local currentStep
    startRec,         \* the record as it was when the generator was created
    executed,         \* the steps whose action this generator has called, in order
    status,           \* the last (step, label) the generator yielded
    raised,           \* the exception that left the generator, if any
    world,            \* what the engine finds outside the record: the files of
                      \* dynamicAssetDir and the durations of the media
    run,              \* the last call of a step action: what it attempted
    \* ---- generate_video_sync (src/api.py) over the working directories
    dirs,             \* dynamic_assets/<short_id>/: whether it exists, its files
    spc,              \* generate_video_sync: "idle" or "running"
    sjob,             \* the job generate_video_sync was called with
    nRuns,            \* number of calls of generate_video_sync so far
    ended,            \* how the calls of generate_video_sync ended, in order
    \* ---- src/channel_scheduler.py
    posts,            \* the posts table: "absent", "queued" (usedYet = 0) or "used"
    cycle,            \* per publish job: where its run_pipeline_once is, its post
    nTriggers,        \* number of publish triggers that have fired so far
    slog,             \* per publish job: what its last run_pipeline_once did, in order
    clock,            \* datetime.now(timezone.utc), in ticks
    last_fetch_time,  \* SchedulerState["last_fetch_time"]: None, or the seconds of
                      \* the ISO string stored
    fetch,            \* the last call of run_fetch_job: its arguments, whether it
                      \* called fetch_and_process_posts, what it returned
    \* ---- the start offsets of _prepareBackgroundAssets
    chosen,           \* the last start offset computed, with its inputs
    \* ---- src/scrapper.py: the tables of the posts, by title
    QueuedPosts,      \* the number of rows of QueuedPosts with a title
    BadPosts,         \* the number of rows of BadPosts with a title
    batch,            \* the response fetch_and_process_posts processed last
    nFetches,         \* number of responses processed so far
    \* ---- src/monitor.py
    mpc,              \* main(): "start" before the initial check, then "loop"
    was_running_last_check,
    observed,         \* what is_script_running returned, check by check
    alerts            \* the calls of send_alert_email: at which check, delivered

apiVars == <<job_queue, unfinished_tasks, nSubmitted, response, wpc, job,
             outcome, pending, threads, log, cancelled>>
engVars == <<rec, gpc, currentStep, startRec, executed, status, raised, world,
             run>>
dirVars == <<dirs, spc, sjob, nRuns, ended>>
schedVars == <<posts, cycle, nTriggers, slog, clock, last_fetch_time, fetch>>
offVars == <<chosen>>
storeVars == <<QueuedPosts, BadPosts, batch, nFetches>>
monVars == <<mpc, was_running_last_check, observed, alerts>>
\* the parts that stand alone: the start offsets, the tables of the posts, the
\* process monitor
sideVars == <<offVars, storeVars, monVars>>
vars == <<apiVars, engVars, dirVars, schedVars, sideVars>>
\* what the actions of the API, and those of the engine, leave alone
nonApiVars == <<engVars, dirVars, schedVars, sideVars>>
nonEngVars == <<apiVars, dirVars, schedVars, sideVars>>

\* ================================================================ src/api.py

\* job_queue = asyncio.Queue(): maxsize 0, so full() is never true
QueueFullBounded(q) == Len(q) >= 1
QueueFull(q) == FALSE

\* asyncio.Queue.get() hands out the oldest entry (collections.deque.popleft)
QueueGetLast(q) == Len(q)
QueueGetIndex(q) == 1

RemoveAt(q, i) == [k \in 1..(Len(q) - 1) |-> IF k < i THEN q[k] ELSE q[k + 1]]

\* "await asyncio.to_thread(generate_video_sync, job)": the worker is suspended
\* until the thread has finished
NotAwaited == "get"
AwaitWithTimeout == "hook"
AwaitToThread == "run"

\* send_webhook catches every Exception of the POST and only logs it
WebhookRaisesOnHttpError(delivered) == ~delivered
WebhookRaises(delivered) == FALSE

\* the worker's "while True": after the finally clause it waits for the next job
LoopExitsAfterFailure(st) == IF st = "failed" THEN "dead" ELSE "get"
LoopBack(st) == "get"

\* the payload of the failure webhook
FailedPayloadGeneric(j, e) ==
    [status |-> "failed", short_id |-> j.short_id, error |-> "error"]
FailedPayload(j, e) ==
    [status |-> "failed", short_id |-> j.short_id, error |-> StrOfException(e)]

\* the payload of the success webhook
SuccessPayload(j, path) ==
    [status |-> "success", short_id |-> j.short_id, video_path |-> path]

NoPayload == [status |-> "none"]

NoOutcome == [kind |-> "none"]
NoResponse == [status |-> "none", short_id |-> "none", queue_position |-> 0]

Event(ev, id, info) == [ev |-> ev, id |-> id, info |-> info]

\* send_webhook(url, payload) is called for job j
HookEvent(j, payload) ==
    [ev |-> "hook", id |-> j.id, info |-> payload.status, payload |-> payload]

\* job_queue.qsize(): the entries put and not yet taken by get()
qsizeWithoutNewest(q) == Len(q) - 1
qsize(q) == Len(q)

\* POST /generate
generate_video(s) ==
    /\ nSubmitted < MaxJobs
    /\ ~QueueFull(job_queue)
    /\ LET request == [id |-> nSubmitted + 1, short_id |-> s]
           q == Append(job_queue, request)
       IN /\ job_queue' = q
          /\ response' = [status |-> "accepted", short_id |-> s,
                          queue_position |-> qsize(q)]
    /\ unfinished_tasks' = unfinished_tasks + 1
    /\ nSubmitted' = nSubmitted + 1
    /\ UNCHANGED <<wpc, job, outcome, pending, threads, log, cancelled, nonApiVars>>

\* process_queue: "job = await job_queue.get()" up to the start of the thread
process_queue_get ==
    /\ wpc = "get"
    /\ job_queue # <<>>
    /\ LET i == QueueGetIndex(job_queue)
       IN /\ job' = job_queue[i]
          /\ job_queue' = RemoveAt(job_queue, i)
          /\ threads' = threads \cup {job_queue[i].id}
          /\ log' = Append(log, Event("start", job_queue[i].id, "pipeline"))
    /\ wpc' = AwaitToThread
    /\ UNCHANGED <<outcome, pending>>
    /\ UNCHANGED <<unfinished_tasks, nSubmitted, response, cancelled, nonApiVars>>

\* generate_video_sync returns the final path: the success webhook is sent
generate_video_sync_returns ==
    /\ wpc = "run"
    /\ job.id \in threads
    /\ threads' = threads \ {job.id}
    /\ outcome' = [kind |-> "returned", path |-> FinalVideoPath(job.short_id)]
    /\ pending' = SuccessPayload(job, FinalVideoPath(job.short_id))
    /\ log' = Append(log, HookEvent(job, pending'))
    /\ wpc' = "hook"
    /\ UNCHANGED <<job_queue, unfinished_tasks, nSubmitted, response, job,
                   cancelled, nonApiVars>>

\* generate_video_sync raises e: "except Exception" sends the failure webhook
generate_video_sync_raises(e) ==
    /\ wpc = "run"
    /\ job.id \in threads
    /\ threads' = threads \ {job.id}
    /\ outcome' = [kind |-> "raised", exc |-> e]
    /\ pending' = FailedPayload(job, e)
    /\ log' = Append(log, HookEvent(job, pending'))
    /\ wpc' = "hook"
    /\ UNCHANGED <<job_queue, unfinished_tasks, nSubmitted, response, job,
                   cancelled, nonApiVars>>

\* the "finally" clause: job_queue.task_done()
TaskDone(info) ==
    /\ unfinished_tasks' = unfinished_tasks - 1
    /\ log' = Append(log, Event("task_done", job.id, info))
    /\ job' = NoJob

\* "await send_webhook(...)" finishes, the POST delivered or not
send_webhook_returns(delivered) ==
    /\ wpc = "hook"
    /\ IF WebhookRaises(delivered)
       THEN IF pending.status = "success"
            THEN \* the exception leaves the try body: the except clause runs
                 /\ pending' = FailedPayload(job,
                        [cls |-> "HTTPError", args |-> <<"webhook failed">>])
                 /\ log' = Append(log, HookEvent(job, pending'))
                 /\ UNCHANGED <<wpc, job, unfinished_tasks>>
            ELSE \* the exception leaves the except clause: finally, then the task ends
                 /\ TaskDone("lost")
                 /\ wpc' = "dead"
                 /\ pending' = pending
       ELSE /\ TaskDone(IF delivered THEN "delivered" ELSE "lost")
            /\ wpc' = LoopBack(pending.status)
            /\ pending' = pending
    /\ UNCHANGED <<job_queue, nSubmitted, response, outcome, threads, cancelled,
                   nonApiVars>>

\* where the worker is after task.cancel(): CancelledError leaves "while True"
CancelSwallowed == "get"
CancelledError == "cancelled"

\* lifespan shutdown: task.cancel(). CancelledError is no Exception: it passes
\* "except Exception", the finally clause runs when a job is held, the loop ends.
\* The thread of asyncio.to_thread is not stopped.
lifespan_shutdown ==
    /\ ~cancelled
    /\ wpc \in {"get", "run", "hook"}
    /\ cancelled' = TRUE
    /\ wpc' = CancelledError
    /\ IF wpc = "get"
       THEN UNCHANGED <<unfinished_tasks, log, job>>
       ELSE TaskDone("cancelled")
    /\ UNCHANGED <<job_queue, nSubmitted, response, outcome, pending, threads,
                   nonApiVars>>

\* a thread left behind by a cancelled worker finishes; nobody awaits its result
orphan_thread_finishes ==
    /\ wpc \in {"cancelled", "dead"}
    /\ threads # {}
    /\ threads' = {}
    /\ UNCHANGED <<job_queue, unfinished_tasks, nSubmitted, response, wpc, job,
                   outcome, pending, log, cancelled, nonApiVars>>

ApiInit ==
    /\ job_queue = <<>>
    /\ unfinished_tasks = 0
    /\ nSubmitted = 0
    /\ response = NoResponse
    /\ wpc = "get"
    /\ job = NoJob
    /\ outcome = NoOutcome
    /\ pending = NoPayload
    /\ threads = {}
    /\ log = <<>>
    /\ cancelled = FALSE

\* ================================ src/ShortGen/engine/reddit_short_engine.py

\* len(self.stepDict)
TotalSteps == 9
get_total_steps == TotalSteps

\* self.stepDict: the step functions by index
stepDict ==
    [i \in 1..TotalSteps |->
        CASE i = 1 -> "_generateScript"
          [] i = 2 -> "_generateTempAudio"
          [] i = 3 -> "_timeCaptions"
          [] i = 4 -> "_chooseBackgroundMusic"
          [] i = 5 -> "_chooseBackgroundVideo"
          [] i = 6 -> "_prepareBackgroundAssets"
          [] i = 7 -> "_prepareCustomAssets"
          [] i = 8 -> "_editAndRenderShort"
          [] i = 9 -> "_saveVideo"]

NoException == [cls |-> "None", args |-> <<>>]
IncorrectStep == [cls |-> "Exception", args |-> <<"Incorrect step">>]

\* verifyParameters(**kwargs): the ValueError for a parameter that is None
ParameterRequired(key) ==
    [cls |-> "ValueError",
     args |-> << CASE key = "audioPath" ->
                       "Parameter audioPath is required but was not provided"
                   [] key = "voiceover_audio_url" ->
                       "Parameter voiceover_audio_url is required but was not provided"
                   [] key = "video_duration" ->
                       "Parameter video_duration is required but was not provided"
                   [] key = "background_video_url" ->
                       "Parameter background_video_url is required but was not provided"
                   [] key = "music_url" ->
                       "Parameter music_url is required but was not provided"
                   [] OTHER ->
                       "Parameter is required but was not provided" >>]
ParameterKeys ==
    {"audioPath", "voiceover_audio_url", "video_duration", "background_video_url",
     "music_url", "text"}

\* the exceptions the step actions raise themselves
ScriptNotSet ==
    [cls |-> "ValueError", args |-> <<"generateScript method must set self._db_script.">>]
VideoTooShort == [cls |-> "Exception", args |-> <<"Background video is too short!">>]
MusicTooShort == [cls |-> "Exception", args |-> <<"Background music is too short!">>]
\* and those of the calls they make: subprocess.run(check=True), the editor's
\* renderVideo, moviepy opening a file that is not there, any other collaborator
CalledProcessError == [cls |-> "CalledProcessError", args |-> <<"ffmpeg">>]
VideoClipNotWritten ==
    [cls |-> "Exception", args |-> <<"Video clip failed to be written">>]
MusicClipNotWritten ==
    [cls |-> "Exception", args |-> <<"Music clip failed to be written">>]
ShapeMismatch ==
    [cls |-> "ValueError",
     args |-> <<"operands could not be broadcast together with shapes">>]
OtherValueError == [cls |-> "ValueError", args |-> <<"step failed">>]
RenderOSError == [cls |-> "OSError", args |-> <<"render failed">>]
FileNotOpened == [cls |-> "OSError", args |-> <<"file could not be opened">>]

StepErrors ==
    {ParameterRequired(k) : k \in ParameterKeys} \cup
    {ScriptNotSet, VideoTooShort, MusicTooShort, CalledProcessError,
     VideoClipNotWritten, MusicClipNotWritten,
     ShapeMismatch, OtherValueError, RenderOSError, FileNotOpened}

\* Python's None in a numeric field, and an optional number that is set
None == <<>>
Some(x) == <<x>>
ValueOf(o) == o[1]

\* the record after __init__ (reddit_short_engine.py:41-65); string fields hold
\* "None" for None
NewRecord ==
    [db_last_completed_step |-> 0, db_ready_to_upload |-> FALSE,
     db_script |-> "", db_temp_audio_path |-> "", db_audio_path |-> "",
     db_voiceover_duration |-> None, db_timed_captions |-> <<>>,
     db_background_music_url |-> "None", db_background_video_url |-> "None",
     db_background_video_duration |-> None, db_background_trimmed |-> "None",
     db_video_start_time |-> None, db_music_start_time |-> None,
     db_background_music_clip |-> "None", db_reddit_thread_image |-> "",
     db_video_path |-> ""]

\* the two fields makeContent() itself reads and writes
Progress(r) ==
    [db_last_completed_step |-> r.db_last_completed_step,
     db_ready_to_upload |-> r.db_ready_to_upload]

\* isShortDone(): the flag _saveVideo sets
DoneByStepCount(r) == r.db_last_completed_step >= TotalSteps - 1
isShortDone(r) == r.db_ready_to_upload

\* "while not self.isShortDone()"; fresh is true for the test made before the
\* first pass of a generator
TestedAfterBody(r, fresh) == fresh \/ ~isShortDone(r)
LoopContinues(r, fresh) == ~isShortDone(r)

SkipsAStep(r) == r.db_last_completed_step + 2
\* currentStep = self._db_last_completed_step + 1
NextStep(r) == r.db_last_completed_step + 1

\* ---- what the step actions find outside the record
\* durations, in seconds, of the voice-over the voice module writes and of the
\* background video and music the engine was constructed with
VoiceDurations == {10, 20}
VideoDurations == {11, 24}
MusicDurations == {11, 24}
\* random.random(), in hundredths
RandomDraws == {0, 99}

\* the files of dynamicAssetDir
TempAudio == "temp_audio_path.wav"
ClippedBackground == "clipped_background.mp4"
CroppedBackground == "clipped_background_9_16.mp4"
MusicClip == "music_clip.mp3"
RedditImage == "redditThreadImage.png"
RenderedVideo == "rendered_video.mp4"
SavedVideo == "videos/<timestamp>.mp4"

FileNames ==
    {TempAudio, ClippedBackground, CroppedBackground, MusicClip, RedditImage,
     RenderedVideo}

\* dynamicAssetDir as __init__ creates it when it is not there, for the engine
\* of job me: no file (the owner of a file is the job that wrote it, 0 for no
\* file), no medium measured yet (duration 0); saved is the owner of the file
\* _saveVideo has moved out, foreign the files of other jobs the engine touched,
\* voice_calls and voice_returns the calls of generate_voice the engine made
\* and those that returned a path
EmptyWorld(me) ==
    [files |-> {}, voice_duration |-> 0, music_duration |-> 0, me |-> me,
     voice_calls |-> "none", voice_returns |-> "none",
     owner |-> [f \in FileNames |-> 0], saved |-> 0, foreign |-> {}]
NewWorld == EmptyWorld(1)

\* what the collaborators of one step call do: fault, an external call of the
\* step raises; written, generate_voice leaves the file it returns the path of;
\* V, D, M, the durations of the media; measurable, moviepy can
\* open the voice-over; transcribe, what Whisper returns; draw_v and draw_m,
\* the random draws; ffmpeg, the ffmpeg call that fails; render and retry, the
\* two calls of renderVideo
DefaultEnv ==
    [fault |-> FALSE, written |-> TRUE, V |-> 10, D |-> 24, M |-> 24,
     measurable |-> TRUE,
     transcribe |-> "words", draw_v |-> 0, draw_m |-> 0, ffmpeg |-> "none",
     render |-> "ok", retry |-> "ok"]

StepEnvs(i) ==
    CASE stepDict[i] = "_generateScript" ->
             {[DefaultEnv EXCEPT !.fault = f] : f \in BOOLEAN}
      [] stepDict[i] = "_generateTempAudio" ->
             {[DefaultEnv EXCEPT !.fault = f, !.V = v, !.written = wr] :
                  f \in BOOLEAN, v \in VoiceDurations, wr \in BOOLEAN}
      [] stepDict[i] = "_timeCaptions" ->
             {[DefaultEnv EXCEPT !.transcribe = t, !.measurable = m] :
                  t \in {"words", "empty", "invalid", "raises"}, m \in BOOLEAN}
      [] stepDict[i] = "_chooseBackgroundMusic" -> {DefaultEnv}
      [] stepDict[i] = "_chooseBackgroundVideo" ->
             {[DefaultEnv EXCEPT !.fault = f, !.D = d] :
                  f \in BOOLEAN, d \in VideoDurations}
      [] stepDict[i] = "_prepareBackgroundAssets" ->
             {[DefaultEnv EXCEPT !.M = m, !.measurable = ok, !.draw_v = dv,
                                 !.draw_m = dm, !.ffmpeg = ff] :
                  m \in MusicDurations, ok \in BOOLEAN, dv \in RandomDraws,
                  dm \in RandomDraws,
                  ff \in {"none", "video", "video_absent", "crop", "music",
                          "music_absent"}}
      [] stepDict[i] = "_prepareCustomAssets" ->
             {[DefaultEnv EXCEPT !.fault = f] : f \in BOOLEAN}
      [] stepDict[i] = "_editAndRenderShort" ->
             {[DefaultEnv EXCEPT !.render = a, !.retry = b] :
                  a \in {"ok", "shape", "value_error", "os_error"},
                  b \in {"ok", "shape", "value_error", "os_error"}}
                 \cup {[DefaultEnv EXCEPT !.written = FALSE]}
      [] OTHER -> {[DefaultEnv EXCEPT !.fault = f] : f \in BOOLEAN}

\* one operation a step attempts; the editor's settings for a render
Op(name) == [op |-> name, animate_words |-> FALSE, overlays |-> FALSE,
             music |-> FALSE, captions |-> <<>>, audio |-> "", video |-> ""]
RenderOp(name, r, animate, decorated) ==
    [op |-> name, animate_words |-> animate, overlays |-> decorated,
     music |-> decorated, captions |-> r.db_timed_captions,
     audio |-> r.db_audio_path, video |-> r.db_background_trimmed]

\* the call of a step action as it goes: the record and the files so far, the
\* operations attempted, the exception that ended it
Called(r, w) == [rec |-> r, world |-> w, exc |-> NoException, ops |-> <<>>]
Raise(s, e) == [s EXCEPT !.exc = e]
Did(s, name) == [s EXCEPT !.ops = Append(@, Op(name))]
\* the call uses, in the way how says, a file another job has written
Touched(s, file, how) ==
    IF file \in s.world.files /\ s.world.owner[file] # s.world.me
    THEN [s EXCEPT !.world.foreign =
                       @ \cup {[file |-> file, of |-> s.world.owner[file], how |-> how]}]
    ELSE s
Wrote(s, file) ==
    [Touched(s, file, "overwritten") EXCEPT
         !.world.files = @ \cup {file}, !.world.owner[file] = s.world.me]
Removed(s, file) ==
    [Touched(s, file, "removed") EXCEPT
         !.world.files = @ \ {file}, !.world.owner[file] = 0]

\* "value is None" for a string field and for a numeric field
IsNoneStr(x) == x = "None"
IsNoneNum(x) == x = None
\* "not value" for a string field and for a numeric field
FalsyStr(x) == x \in {"None", ""}
FalsyNum(x) == x = None \/ ValueOf(x) = 0

\* verifyParameters(**kwargs), each keyword given with "its value is None": the
\* ValueError of the first keyword that is None, if any
verifyParameters(kwargs) ==
    LET bad == {k \in 1..Len(kwargs) : kwargs[k][2]}
    IN IF bad = {} THEN NoException
       ELSE ParameterRequired(kwargs[CHOOSE k \in bad : \A j \in bad : k <= j][1])

\* ---- the step actions

\* _generateScript: the script is the title and the story, or the post the
\* Reddit API returns
generateScript(r, w, env) ==
    IF env.fault THEN Raise(Did(Called(r, w), "get_reddit_post_content"), OtherValueError)
    ELSE Called([r EXCEPT !.db_script = "script"], w)

\* _generateTempAudio
\* how often the engine has called, and got a path from, generate_voice:
\* "none", "once" or "again" (more than once)
OnceMore(n) == IF n = "none" THEN "once" ELSE "again"

generateTempAudioAlways(r, w, env) ==
    IF r.db_script = "" THEN Raise(Called(r, w), ScriptNotSet)
    ELSE IF env.fault
    THEN Raise(Did(Called(r, [w EXCEPT !.voice_calls = OnceMore(@)]), "generate_voice"),
               OtherValueError)
    ELSE LET called == Called([r EXCEPT !.db_temp_audio_path = TempAudio,
                                        !.db_audio_path = TempAudio],
                              [w EXCEPT !.voice_calls = OnceMore(@),
                                        !.voice_returns = OnceMore(@)])
         IN Did(IF env.written
                THEN Wrote([called EXCEPT !.world.voice_duration = env.V], TempAudio)
                ELSE called,
                "generate_voice")

generateTempAudio(r, w, env) ==
    IF r.db_script = "" THEN Raise(Called(r, w), ScriptNotSet)
    ELSE IF r.db_temp_audio_path # "" THEN Called(r, w)
    ELSE IF env.fault
    THEN Raise(Did(Called(r, [w EXCEPT !.voice_calls = OnceMore(@)]), "generate_voice"),
               OtherValueError)
    ELSE LET called == Called([r EXCEPT !.db_temp_audio_path = TempAudio,
                                        !.db_audio_path = TempAudio],
                              [w EXCEPT !.voice_calls = OnceMore(@),
                                        !.voice_returns = OnceMore(@)])
         IN Did(IF env.written
                THEN Wrote([called EXCEPT !.world.voice_duration = env.V], TempAudio)
                ELSE called,
                "generate_voice")

\* getAudioDuration(self._db_audio_path): moviepy opens the file or raises
CanMeasureVoice(r, w, env) == r.db_audio_path \in w.files /\ env.measurable

\* the last-resort length of the fallback caption
DefaultCaptionSeconds == 30
Caption(start, end, text) == [start |-> start, end |-> end, text |-> text]
WordCaptions(w) == <<Caption(0, 1, "word"), Caption(1, w.voice_duration, "word")>>

\* the except clause of _timeCaptions
FallbackWithoutMeasuring(r, w, env) ==
    <<Caption(0, DefaultCaptionSeconds, "CAPTIONS UNAVAILABLE")>>
FallbackCaptions(r, w, env) ==
    IF CanMeasureVoice(r, w, env)
    THEN <<Caption(0, w.voice_duration, "CAPTIONS UNAVAILABLE")>>
    ELSE <<Caption(0, DefaultCaptionSeconds, "CAPTIONS UNAVAILABLE")>>

\* _timeCaptions: every exception of its body is caught
timeCaptions(r, w, env) ==
    LET pre == verifyParameters(<< <<"audioPath", IsNoneStr(r.db_audio_path)>> >>)
        s0 == Called(r, w)
        captions(c) == [r EXCEPT !.db_timed_captions = c]
    IN IF pre # NoException THEN Raise(s0, pre)
       ELSE IF r.db_audio_path \notin w.files
       THEN [s0 EXCEPT !.rec = captions(FallbackCaptions(r, w, env))]
       ELSE IF env.transcribe \in {"raises", "invalid"}
       THEN [Did(s0, "audioToText") EXCEPT !.rec = captions(FallbackCaptions(r, w, env))]
       ELSE IF env.transcribe = "words"
       THEN [Did(s0, "audioToText") EXCEPT !.rec = captions(WordCaptions(w))]
       ELSE IF env.measurable
       THEN [Did(s0, "audioToText") EXCEPT
                 !.rec = captions(<<Caption(0, w.voice_duration, "NO CAPTIONS AVAILABLE")>>)]
       ELSE [Did(s0, "audioToText") EXCEPT !.rec = captions(FallbackCaptions(r, w, env))]

\* _chooseBackgroundMusic
chooseBackgroundMusic(r, w, env) ==
    Called([r EXCEPT !.db_background_music_url = "music"], w)

\* _chooseBackgroundVideo: the url is assigned before the duration is measured
chooseBackgroundVideo(r, w, env) ==
    LET r1 == [r EXCEPT !.db_background_video_url = "video"]
    IN IF env.fault THEN Raise(Did(Called(r1, w), "getVideoDuration"), FileNotOpened)
       ELSE Did(Called([r1 EXCEPT !.db_background_video_duration = Some(env.D)], w),
                "getVideoDuration")

\* the factors of _prepareBackgroundAssets, in hundredths: the margin a
\* background must have over the voice-over (1.2), the length kept free behind
\* a start offset (1.1), the part of a background skipped as intro (0.15)
SafetyMarginPct == 120
ClipFactorPct == 110
IntroSkipPct == 15

\* "duration < voiceover_duration * 1.2"
TooShortNoMargin(duration, voice) == duration * 100 < voice * 100
TooShort(duration, voice) == duration * 100 < voice * SafetyMarginPct

StartOffsetNoIntroSkip(duration, voice, draw) ==
    LET max_start_time == duration * 100 - voice * ClipFactorPct
    IN IF max_start_time <= 0 THEN 0 ELSE (draw * max_start_time) \div 100

\* the start offset of a clip, in hundredths of a second, for the random draw
StartOffset(duration, voice, draw) ==
    LET max_start_time == duration * 100 - voice * ClipFactorPct
        min_start_time == duration * IntroSkipPct
    IN IF max_start_time <= min_start_time THEN min_start_time
       ELSE min_start_time + (draw * (max_start_time - min_start_time)) \div 100

\* _prepareBackgroundAssets, part by part; a part does nothing once an
\* exception has been raised
Assets_verify(s) ==
    LET r == s.rec
        pre == verifyParameters(<<
                   <<"voiceover_audio_url", IsNoneStr(r.db_audio_path)>>,
                   <<"video_duration", IsNoneNum(r.db_background_video_duration)>>,
                   <<"background_video_url", IsNoneStr(r.db_background_video_url)>>,
                   <<"music_url", IsNoneStr(r.db_background_music_url)>> >>)
    IN IF pre # NoException THEN Raise(s, pre) ELSE s

Assets_voice(s, env) ==
    IF s.exc # NoException \/ ~FalsyNum(s.rec.db_voiceover_duration) THEN s
    ELSE IF ~CanMeasureVoice(s.rec, s.world, env)
    THEN Raise(Did(s, "getAudioDuration"), FileNotOpened)
    ELSE [Did(s, "getAudioDuration") EXCEPT
              !.rec.db_voiceover_duration = Some(s.world.voice_duration)]

Assets_checkVideo(s) ==
    IF s.exc # NoException THEN s
    ELSE IF TooShort(ValueOf(s.rec.db_background_video_duration),
                     ValueOf(s.rec.db_voiceover_duration))
    THEN Raise(s, VideoTooShort)
    ELSE s

Assets_measureMusic(s, env) ==
    IF s.exc # NoException THEN s
    ELSE [Did(s, "getAudioDuration") EXCEPT
              !.world.music_duration = IF @ = 0 THEN env.M ELSE @]
Assets_checkMusic(s, env) ==
    IF s.exc # NoException THEN s
    ELSE LET m == IF s.world.music_duration = 0 THEN env.M
                  ELSE s.world.music_duration
             s1 == [Did(s, "getAudioDuration") EXCEPT !.world.music_duration = m]
         IN IF TooShort(m, ValueOf(s.rec.db_voiceover_duration))
            THEN Raise(s1, MusicTooShort)
            ELSE s1

Assets_trimVideo(s, env) ==
    IF s.exc # NoException THEN s
    ELSE LET s1 == IF ClippedBackground \in s.world.files
                   THEN Did(Removed(s, ClippedBackground), "remove")
                   ELSE s
             start == StartOffset(ValueOf(s.rec.db_background_video_duration),
                                  ValueOf(s.rec.db_voiceover_duration), env.draw_v)
             s2 == Did([s1 EXCEPT !.rec.db_video_start_time = Some(start)],
                       "ffmpeg_video")
         IN IF env.ffmpeg = "video" THEN Raise(s2, CalledProcessError)
            ELSE IF env.ffmpeg = "video_absent" THEN Raise(s2, VideoClipNotWritten)
            ELSE [Wrote(s2, ClippedBackground) EXCEPT
                      !.rec.db_background_trimmed = ClippedBackground]

Assets_crop(s, env) ==
    IF s.exc # NoException THEN s
    ELSE IF env.ffmpeg = "crop" THEN Raise(Did(s, "crop_to_9_16"), CalledProcessError)
    ELSE [Wrote(Did(s, "crop_to_9_16"), CroppedBackground) EXCEPT
              !.rec.db_background_trimmed = CroppedBackground]

Assets_trimMusicUnchecked(s, env) ==
    IF s.exc # NoException THEN s
    ELSE LET start == StartOffset(s.world.music_duration,
                                  ValueOf(s.rec.db_voiceover_duration), env.draw_m)
             s1 == [s EXCEPT !.rec.db_music_start_time = Some(start)]
             s2 == IF MusicClip \in s.world.files
                   THEN Did(Removed(s1, MusicClip), "remove")
                   ELSE s1
             s3 == Did(s2, "ffmpeg_music")
         IN IF env.ffmpeg \in {"music", "music_absent"}
            THEN [s3 EXCEPT !.rec.db_background_music_clip = MusicClip]
            ELSE [Wrote(s3, MusicClip) EXCEPT !.rec.db_background_music_clip = MusicClip]

\* subprocess.run(music_command, check=True), then the test that the file is
\* there
Assets_trimMusic(s, env) ==
    IF s.exc # NoException THEN s
    ELSE LET start == StartOffset(s.world.music_duration,
                                  ValueOf(s.rec.db_voiceover_duration), env.draw_m)
             s1 == [s EXCEPT !.rec.db_music_start_time = Some(start)]
             s2 == IF MusicClip \in s.world.files
                   THEN Did(Removed(s1, MusicClip), "remove")
                   ELSE s1
             s3 == Did(s2, "ffmpeg_music")
         IN IF env.ffmpeg = "music" THEN Raise(s3, CalledProcessError)
            ELSE IF env.ffmpeg = "music_absent" THEN Raise(s3, MusicClipNotWritten)
            ELSE [Wrote(s3, MusicClip) EXCEPT !.rec.db_background_music_clip = MusicClip]

prepareAssetsAlwaysTrims(r, w, env) ==
    LET checked == Assets_checkMusic(
                       Assets_checkVideo(Assets_voice(Assets_verify(Called(r, w)), env)),
                       env)
    IN IF checked.exc # NoException THEN checked
       ELSE Assets_trimMusic(Assets_crop(Assets_trimVideo(checked, env), env), env)

\* _prepareBackgroundAssets: both durations are checked before the block that
\* trims, and the block is skipped when _db_background_trimmed is already set
prepareBackgroundAssets(r, w, env) ==
    LET checked == Assets_checkMusic(
                       Assets_checkVideo(Assets_voice(Assets_verify(Called(r, w)), env)),
                       env)
    IN IF checked.exc # NoException \/ ~FalsyStr(checked.rec.db_background_trimmed)
       THEN checked
       ELSE Assets_trimMusic(Assets_crop(Assets_trimVideo(checked, env), env), env)

\* _prepareCustomAssets
prepareCustomAssets(r, w, env) ==
    IF env.fault THEN Raise(Did(Called(r, w), "renderImage"), OtherValueError)
    ELSE Did(Wrote(Called([r EXCEPT !.db_reddit_thread_image = RedditImage], w),
                   RedditImage),
             "renderImage")

\* the except clause of the first renderVideo: a ValueError whose message says
\* "operands could not be broadcast together with shapes"
RetriesAnyValueError(outcome1) == outcome1 \in {"shape", "value_error"}
IsShapeMismatch(outcome1) == outcome1 = "shape"

RenderError(result) ==
    CASE result = "shape" -> ShapeMismatch
      [] result = "value_error" -> OtherValueError
      [] OTHER -> RenderOSError

RetryIgnoresFailure(s, retry) ==
    IF retry = "ok" THEN Wrote(s, RenderedVideo) ELSE s
\* simpleEditor.renderVideo(outputPath), inside the except clause and not
\* protected itself: what it raises leaves the step
SimpleRetry(s, retry) ==
    IF retry = "ok" THEN Wrote(s, RenderedVideo) ELSE Raise(s, RenderError(retry))

\* _editAndRenderShort: nothing is rendered when rendered_video.mp4 is there;
\* the path is recorded whether or not renderVideo, once it returned, has left
\* a file at it
editAndRenderShort(r, w, env) ==
    LET pre == verifyParameters(<<
                   <<"voiceover_audio_url", IsNoneStr(r.db_audio_path)>>,
                   <<"video_duration", IsNoneNum(r.db_background_video_duration)>>,
                   <<"music_url", IsNoneStr(r.db_background_music_url)>> >>)
        s0 == Called(r, w)
        done(s) == [s EXCEPT !.rec.db_video_path = RenderedVideo]
        first == [s0 EXCEPT !.ops = Append(@, RenderOp("renderVideo", r, TRUE, TRUE))]
        second == [first EXCEPT
                       !.ops = Append(@, RenderOp("renderVideo", r, FALSE, FALSE))]
    IN IF pre # NoException THEN Raise(s0, pre)
       ELSE IF RenderedVideo \in w.files THEN done(Touched(s0, RenderedVideo, "reused"))
       ELSE IF env.render = "ok"
       THEN done(IF env.written THEN Wrote(first, RenderedVideo) ELSE first)
       ELSE IF ~IsShapeMismatch(env.render) THEN Raise(first, RenderError(env.render))
       ELSE LET retried == SimpleRetry(second, env.retry)
            IN IF retried.exc = NoException THEN done(retried) ELSE retried

\* _saveVideo: the flag is set whether or not there was a file to move
saveVideoNoFlag(r, w, env) ==
    IF env.fault THEN Raise(Did(Called(r, w), "move"), OtherValueError)
    ELSE Called(r, w)
saveVideo(r, w, env) ==
    IF env.fault THEN Raise(Did(Called(r, w), "move"), OtherValueError)
    ELSE IF r.db_video_path \in w.files
    THEN Did(Removed(Called([r EXCEPT !.db_video_path = SavedVideo,
                                      !.db_ready_to_upload = TRUE],
                            [w EXCEPT !.saved = w.owner[r.db_video_path]]),
                     r.db_video_path),
             "move")
    ELSE Called([r EXCEPT !.db_ready_to_upload = TRUE], w)

\* self.stepDict[i](): the action of step i
StepEffect(r, w, i, env) ==
    CASE stepDict[i] = "_generateScript" -> generateScript(r, w, env)
      [] stepDict[i] = "_generateTempAudio" -> generateTempAudio(r, w, env)
      [] stepDict[i] = "_timeCaptions" -> timeCaptions(r, w, env)
      [] stepDict[i] = "_chooseBackgroundMusic" -> chooseBackgroundMusic(r, w, env)
      [] stepDict[i] = "_chooseBackgroundVideo" -> chooseBackgroundVideo(r, w, env)
      [] stepDict[i] = "_prepareBackgroundAssets" -> prepareBackgroundAssets(r, w, env)
      [] stepDict[i] = "_prepareCustomAssets" -> prepareCustomAssets(r, w, env)
      [] stepDict[i] = "_editAndRenderShort" -> editAndRenderShort(r, w, env)
      [] stepDict[i] = "_saveVideo" -> saveVideo(r, w, env)

\* what is kept of a call for the properties: the step, the record it found,
\* the operations it attempted, how it ended, what was true of the files
NoRun == [step |-> 0, before |-> NewRecord, ops |-> <<>>, exc |-> NoException,
          transcribed |-> "none", measurable |-> TRUE, rendered |-> FALSE,
          first |-> "none", retry |-> "none", ffmpeg |-> "none", voice |-> "none",
          by |-> "none"]
RunOf(i, r, w, env, res, caller) ==
    [step |-> i, before |-> r, ops |-> res.ops, exc |-> res.exc,
     transcribed |-> IF stepDict[i] = "_timeCaptions" /\ r.db_audio_path \in w.files
                     THEN env.transcribe ELSE "none",
     measurable |-> CanMeasureVoice(r, w, env),
     rendered |-> RenderedVideo \in w.files,
     first |-> IF stepDict[i] = "_editAndRenderShort" THEN env.render ELSE "none",
     retry |-> IF stepDict[i] = "_editAndRenderShort" /\ env.render = "shape"
               THEN env.retry ELSE "none",
     ffmpeg |-> IF \E k \in 1..Len(res.ops) : res.ops[k].op = "ffmpeg_video"
                THEN env.ffmpeg ELSE "none",
     voice |-> IF \E k \in 1..Len(res.ops) : res.ops[k].op = "generate_voice"
               THEN (IF env.fault THEN "raised"
                     ELSE IF env.written THEN "written" ELSE "absent")
               ELSE "none",
     by |-> caller]

MarkAhead(r, cs) == [r EXCEPT !.db_last_completed_step = cs + 1]
\* self._db_last_completed_step = currentStep, after the action returned
MarkCompleted(r, cs) == [r EXCEPT !.db_last_completed_step = cs]

\* an exception of the action leaves makeContent() at once: nothing is written
ResetOnRaise(r, cs) == [r EXCEPT !.db_last_completed_step = 0]
MarkOnRaise(r, cs) == [r EXCEPT !.db_last_completed_step = cs]
OnStepRaise(r, cs) == r

\* the label of the status tuple
StepLabel(cs) ==
    IF stepDict[cs] = "_editAndRenderShort" THEN "Preparing rendering assets..."
    ELSE stepDict[cs]

\* the loop of makeContent() from its test to the next yield
LoopHead(r, fresh) ==
    IF ~LoopContinues(r, fresh)
    THEN [pc |-> "done", cs |-> 0, st |-> <<>>, exc |-> NoException]
    ELSE IF NextStep(r) \notin DOMAIN stepDict
    THEN [pc |-> "failed", cs |-> NextStep(r), st |-> <<>>, exc |-> IncorrectStep]
    ELSE [pc |-> "yielded", cs |-> NextStep(r),
          st |-> <<NextStep(r), get_total_steps, StepLabel(NextStep(r))>>,
          exc |-> NoException]

Resume(r, fresh) ==
    LET h == LoopHead(r, fresh)
    IN /\ gpc' = h.pc
       /\ currentStep' = h.cs
       /\ status' = IF h.pc = "yielded" THEN h.st ELSE status
       /\ raised' = h.exc

\* engine.makeContent(): a generator object is created; no code of it runs yet
makeContent ==
    /\ gpc \in {"none", "done", "failed", "closed"}
    /\ gpc' = "created"
    /\ startRec' = Progress(rec)
    /\ executed' = <<>>
    /\ currentStep' = 0
    /\ raised' = NoException
    /\ UNCHANGED <<rec, status, world, run, nonEngVars>>

\* the first next() of the generator
makeContent_first_next ==
    /\ gpc = "created"
    /\ Resume(rec, TRUE)
    /\ UNCHANGED <<rec, startRec, executed, world, run, nonEngVars>>

\* next() of a suspended generator: the action of currentStep returns
makeContent_step_returns ==
    /\ gpc = "yielded"
    /\ executed' = Append(executed, currentStep)
    /\ \E env \in StepEnvs(currentStep) :
          LET res == StepEffect(rec, world, currentStep, env)
              r == MarkCompleted(res.rec, currentStep)
          IN /\ res.exc = NoException
             /\ rec' = r
             /\ world' = res.world
             /\ run' = RunOf(currentStep, rec, world, env, res, "makeContent")
             /\ Resume(r, FALSE)
    /\ UNCHANGED <<startRec, nonEngVars>>

\* next() of a suspended generator: the action of currentStep raises e
makeContent_step_raises(e) ==
    /\ gpc = "yielded"
    /\ executed' = Append(executed, currentStep)
    /\ \E env \in StepEnvs(currentStep) :
          LET res == StepEffect(rec, world, currentStep, env)
          IN /\ res.exc = e
             /\ rec' = OnStepRaise(res.rec, currentStep)
             /\ world' = res.world
             /\ run' = RunOf(currentStep, rec, world, env, res, "makeContent")
    /\ gpc' = "failed"
    /\ raised' = e
    /\ UNCHANGED <<currentStep, status, startRec, nonEngVars>>

\* the consumer drops a generator it has not exhausted (generator.close())
makeContent_close ==
    /\ gpc \in {"created", "yielded"}
    /\ gpc' = "closed"
    /\ UNCHANGED <<rec, currentStep, startRec, executed, status, raised, world, run,
                   nonEngVars>>

\* the step actions a caller can run on a record outside makeContent()
DirectSteps == {3, 4, 5, 6}

\* self.stepDict[i]() called on a record no generator has been created on
stepDict_call(i) ==
    /\ gpc = "none"
    /\ \E env \in StepEnvs(i) :
          LET res == StepEffect(rec, world, i, env)
          IN /\ rec' = res.rec
             /\ world' = res.world
             /\ run' = RunOf(i, rec, world, env, res, "caller")
    /\ UNCHANGED <<gpc, currentStep, startRec, executed, status, raised, nonEngVars>>

EngineInit ==
    /\ rec = NewRecord
    /\ gpc = "none"
    /\ currentStep = 0
    /\ startRec = Progress(NewRecord)
    /\ executed = <<>>
    /\ status = <<>>
    /\ raised = NoException
    /\ world = NewWorld
    /\ run = NoRun

\* ==================== src/api.py: generate_video_sync and dynamic_assets/

\* a working directory that does not exist
NoDir == [exists |-> FALSE, world |-> EmptyWorld(0)]

\* generate_video_sync up to the loop over makeContent() (api.py:79-110): the
\* engine is constructed for the job; __init__ creates dynamic_assets/<short_id>/
\* only when it is not there and otherwise finds in it what was left
generate_video_sync_init(s) ==
    /\ spc = "idle"
    /\ nRuns < MaxRuns
    /\ nRuns' = nRuns + 1
    /\ sjob' = [id |-> nRuns + 1, short_id |-> s]
    /\ spc' = "running"
    /\ world' = IF dirs[s].exists
                THEN [dirs[s].world EXCEPT !.me = nRuns + 1, !.music_duration = 0,
                                           !.saved = 0, !.foreign = {},
                                           !.voice_calls = "none",
                                           !.voice_returns = "none"]
                ELSE EmptyWorld(nRuns + 1)
    /\ dirs' = [dirs EXCEPT ![s].exists = TRUE]
    /\ rec' = NewRecord
    /\ gpc' = "none"
    /\ currentStep' = 0
    /\ startRec' = Progress(NewRecord)
    /\ executed' = <<>>
    /\ status' = <<>>
    /\ raised' = NoException
    /\ run' = NoRun
    /\ UNCHANGED <<ended, apiVars, schedVars, sideVars>>

\* "for step_num, step_info in engine.makeContent()": the generator is created
generate_video_sync_makeContent ==
    /\ spc = "running"
    /\ gpc = "none"
    /\ makeContent

\* and driven until it ends or raises
generate_video_sync_next ==
    /\ spc = "running"
    /\ \/ makeContent_first_next
       \/ makeContent_step_returns
       \/ \E e \in StepErrors : makeContent_step_raises(e)

\* the entry of "ended" for the job
Ending(j, st, content) ==
    [id |-> j.id, short_id |-> j.short_id, status |-> st, content |-> content]

\* a test that only looks whether the engine has recorded a video path
VideoPathRecorded(r, w) == r.db_video_path # ""
\* "hasattr(engine, '_db_video_path') and os.path.exists(engine._db_video_path)":
\* the file _saveVideo moved is at its new path, a file of the working
\* directory is there when the directory holds it
VideoExists(r, w) == r.db_video_path = SavedVideo \/ r.db_video_path \in w.files

\* after the loop (api.py:113-131): the video is moved to the output folder and
\* the working directory removed, rmtree failing (removed false) with a warning
\* only; without a video FileNotFoundError is raised
generate_video_sync_ends(removed) ==
    /\ spc = "running"
    /\ gpc = "done"
    /\ spc' = "idle"
    /\ IF VideoExists(rec, world)
       THEN /\ ended' = Append(ended, Ending(sjob, "success", world.saved))
            /\ dirs' = [dirs EXCEPT ![sjob.short_id] =
                            IF removed THEN NoDir
                            ELSE [exists |-> TRUE, world |-> world]]
       ELSE /\ ended' = Append(ended, Ending(sjob, "failed", 0))
            /\ dirs' = [dirs EXCEPT ![sjob.short_id].world = world]
    /\ UNCHANGED <<sjob, nRuns, engVars, apiVars, schedVars, sideVars>>

\* an exception of a step leaves makeContent() and generate_video_sync: nothing
\* is removed before process_queue reports the failure (api.py:162-177)
generate_video_sync_propagates ==
    /\ spc = "running"
    /\ gpc = "failed"
    /\ spc' = "idle"
    /\ ended' = Append(ended, Ending(sjob, "failed", 0))
    /\ dirs' = [dirs EXCEPT ![sjob.short_id].world = world]
    /\ UNCHANGED <<sjob, nRuns, engVars, apiVars, schedVars, sideVars>>

DirInit ==
    /\ dirs = [s \in ShortIds |-> NoDir]
    /\ spc = "idle"
    /\ sjob = NoJob
    /\ nRuns = 0
    /\ ended = <<>>

\* ================================================= src/channel_scheduler.py

\* the jobs start_scheduler adds for scheduler.daily_publish_times, by the
\* number of their id "daily_generate_and_upload_<n>"
PublishJobs == {1, 2}
Posts == 1..MaxPosts
\* the score the ranking gave a post; the posts are numbered in the order of
\* their createdAt. Posts 2 and 3 have the same score, above the one of post 1.
Score(p) == ((p \div 2) % 2) + 1

NoCycle == [pc |-> "idle", post |-> 0]

Queued(ps) == {p \in Posts : ps[p] = "queued"}

\* a selection that breaks ties of the score by the latest createdAt
get_newest_top_post(ps) ==
    IF Queued(ps) = {} THEN 0
    ELSE CHOOSE p \in Queued(ps) :
             \A q \in Queued(ps) :
                 Score(p) > Score(q) \/ (Score(p) = Score(q) /\ p >= q)

\* get_next_queued_post(conn): "WHERE usedYet = 0 ... ORDER BY score DESC,
\* createdAt ASC LIMIT 1"; 0 when there is no row
get_next_queued_post(ps) ==
    IF Queued(ps) = {} THEN 0
    ELSE CHOOSE p \in Queued(ps) :
             \A q \in Queued(ps) :
                 Score(p) > Score(q) \/ (Score(p) = Score(q) /\ p <= q)

\* fetch_and_process_posts(conn): the posts found are inserted with usedYet = 0
fetch_and_process_posts(ps, found) ==
    [p \in Posts |-> IF ps[p] = "absent" /\ p \in found THEN "queued" ELSE ps[p]]

SchedEvent(ev, j, p) == [ev |-> ev, job |-> j, post |-> p]

\* the cron trigger of publish job j fires: the scheduler hands the job to its
\* executor, which runs it in a thread of its pool; only a running instance of
\* the same job id makes the scheduler skip the run
publish_trigger_allowed(j) == cycle[j].pc = "idle"

publish_trigger(j) ==
    /\ nTriggers < MaxTriggers
    /\ publish_trigger_allowed(j)
    /\ nTriggers' = nTriggers + 1
    /\ cycle' = [cycle EXCEPT ![j] = [pc |-> "started", post |-> 0]]
    /\ slog' = [slog EXCEPT ![j] = <<>>]
    /\ UNCHANGED <<posts, clock, last_fetch_time, fetch, apiVars, engVars, dirVars,
                   sideVars>>

\* run_pipeline_once up to the selected post (lines 498-517): the next queued
\* post, after a fetch when there is none ("Queue empty, fetching fresh posts
\* first..."); it returns when there is still none. The fetch is a direct call
\* of fetch_and_process_posts: SchedulerState is neither read nor written.
run_pipeline_once_select(j, found) ==
    /\ cycle[j].pc = "started"
    /\ LET empty == get_next_queued_post(posts) = 0
           refilled == IF empty THEN fetch_and_process_posts(posts, found) ELSE posts
           post == get_next_queued_post(refilled)
           logged == IF empty THEN Append(slog[j], SchedEvent("refill", j, 0))
                     ELSE slog[j]
       IN /\ posts' = refilled
          /\ IF post = 0
             THEN /\ cycle' = [cycle EXCEPT ![j] = NoCycle]
                  /\ slog' = [slog EXCEPT ![j] = Append(logged, SchedEvent("none", j, 0))]
             ELSE /\ cycle' = [cycle EXCEPT ![j] = [pc |-> "selected", post |-> post]]
                  /\ slog' = [slog EXCEPT ![j] =
                                 Append(logged, SchedEvent("select", j, post))]
    /\ UNCHANGED <<nTriggers, clock, last_fetch_time, fetch, apiVars, engVars,
                   dirVars, sideVars>>

\* the enabled channels of config.json: the youtube channels in their order,
\* and one tiktok channel, which reuses the video of the first youtube channel
YoutubeChannels == {1, 2}
\* what the body of the channel loop does for a youtube channel: it uploads, or
\* generate_variant_video raises (the engine, a missing video), or
\* upload_to_youtube raises; the except clause of the loop catches either
ChannelOutcomes == {"uploaded", "generate_raised", "upload_raised"}
TiktokOutcomes == {"uploaded", "raised"}
\* what happens before the loop: the channels are there and the shared audio is
\* built, or an exception leaves run_pipeline_once (no audio file, the voice
\* module raises)
SetupOutcomes == {"ok", "raised"}
ChannelRuns == [youtube : [YoutubeChannels -> ChannelOutcomes], tiktok : TiktokOutcomes]

\* the tiktok upload is tried once, right after the upload of the first youtube
\* channel (channel_index == 0), and its failure is caught on its own
TiktokTried(runs) == runs.youtube[1] = "uploaded"

Uploaded(runs) ==
    {<<"youtube", c>> : c \in {c \in YoutubeChannels : runs.youtube[c] = "uploaded"}}
        \cup (IF TiktokTried(runs) /\ runs.tiktok = "uploaded"
              THEN {<<"tiktok", 1>>} ELSE {})

Failed(runs) ==
    {<<"youtube", c>> : c \in {c \in YoutubeChannels : runs.youtube[c] # "uploaded"}}
        \cup (IF TiktokTried(runs) /\ runs.tiktok = "raised"
              THEN {<<"tiktok", 1>>} ELSE {})

\* success_count after the loop: one per upload that returned
success_count(runs) == Cardinality(Uploaded(runs))

MarkWhenAllUploaded(setup, runs) == setup = "ok" /\ Failed(runs) = {}

\* "if success_count > 0: mark_post_as_used(conn, post["rowid"])", which an
\* exception before the loop does not reach
MarksUsed(setup, runs) == setup = "ok" /\ success_count(runs) > 0

\* mark_post_as_used(conn, rowid): "UPDATE QueuedPosts SET usedYet = 1"
mark_post_as_used(ps, rowid) == [ps EXCEPT ![rowid] = "used"]

EndEvent(j, p, setup, runs) ==
    [ev |-> IF setup = "raised" THEN "raised"
            ELSE IF success_count(runs) > 0 THEN "uploaded" ELSE "not_uploaded",
     job |-> j, post |-> p,
     uploaded |-> IF setup = "ok" THEN Uploaded(runs) ELSE {},
     failed |-> IF setup = "ok" THEN Failed(runs) ELSE {}]

\* the rest of run_pipeline_once (lines 519-735): the videos are generated and
\* uploaded channel by channel; the post is marked used when at least one
\* upload succeeded (success_count > 0), kept unused otherwise, also when an
\* exception leaves
run_pipeline_once_finish(j, setup, runs) ==
    /\ cycle[j].pc = "selected"
    /\ posts' = IF MarksUsed(setup, runs)
                THEN mark_post_as_used(posts, cycle[j].post)
                ELSE posts
    /\ slog' = [slog EXCEPT ![j] = Append(@, EndEvent(j, cycle[j].post, setup, runs))]
    /\ cycle' = [cycle EXCEPT ![j] = NoCycle]
    /\ UNCHANGED <<nTriggers, clock, last_fetch_time, fetch, apiVars, engVars,
                   dirVars, sideVars>>

\* time passes on the scheduler's host
Tick ==
    /\ clock < MaxClock
    /\ clock' = clock + 1
    /\ UNCHANGED <<posts, cycle, nTriggers, slog, last_fetch_time, fetch, apiVars,
                   engVars, dirVars, sideVars>>

\* timedelta(hours = 1), in ticks
HourTicks == SecondsPerHour * TicksPerSecond
\* the values of scheduler.fetch_interval_hours explored, and the one of the
\* configuration start_scheduler reads
FetchIntervals == {1, 2}
fetch_interval_hours == CHOOSE h \in FetchIntervals : \A k \in FetchIntervals : h <= k

\* set_last_fetch_time(conn, when_utc): the ISO string of when_utc with
\* microsecond = 0 is stored
set_last_fetch_time(when_utc) == Some(when_utc \div TicksPerSecond)
\* get_last_fetch_time(conn): None without a value, else the stored string parsed
get_last_fetch_time(raw_value) ==
    IF raw_value = None THEN None ELSE Some(raw_value[1] * TicksPerSecond)

\* a cooldown test that also skips when exactly the cooldown has elapsed
FetchDueAfterCooldown(force, last, now_utc, hours) ==
    force \/ last = None \/ now_utc - last[1] > hours * HourTicks
\* run_fetch_job lines 745-762: the fetch is skipped when "not force and
\* last_fetch_time is not None" and "elapsed < cooldown"
FetchDue(force, last, now_utc, hours) ==
    ~(~force /\ last # None /\ now_utc - last[1] < hours * HourTicks)

NoFetch == [force |-> FALSE, hours |-> 0, invoked |-> FALSE, returned |-> "none"]

\* run_fetch_job(force, fetch_interval_hours): the job daily_fetch_posts of the
\* scheduler (force = False) and the fetch stage of --once; found are the new
\* posts the subreddits offer
run_fetch_job(force, hours, found) ==
    /\ found \subseteq {p \in Posts : posts[p] = "absent"}
    /\ LET now_utc == clock
           last == get_last_fetch_time(last_fetch_time)
       IN IF FetchDue(force, last, now_utc, hours)
          THEN /\ posts' = fetch_and_process_posts(posts, found)
               /\ last_fetch_time' = set_last_fetch_time(now_utc)
               /\ fetch' = [force |-> force, hours |-> hours, invoked |-> TRUE,
                            returned |-> "True"]
          ELSE /\ fetch' = [force |-> force, hours |-> hours, invoked |-> FALSE,
                            returned |-> "False"]
               /\ UNCHANGED <<posts, last_fetch_time>>
    /\ UNCHANGED <<cycle, nTriggers, slog, clock, apiVars, engVars, dirVars, sideVars>>

SchedInit ==
    /\ posts = [p \in Posts |-> "absent"]
    /\ cycle = [j \in PublishJobs |-> NoCycle]
    /\ nTriggers = 0
    /\ slog = [j \in PublishJobs |-> <<>>]
    /\ clock = 0
    /\ last_fetch_time = None
    /\ fetch = NoFetch

\* ------------------------------------------------------ the start offsets

\* the durations, in seconds, of a source (background video or music) and of
\* the voice-over it has to cover, and random.random() in hundredths
SourceDurations == {11, 24, 70, 100}
NeededDurations == {10, 20, 60}
Draws == {0, 10, 20, 30, 40, 50, 60, 70, 80, 90, 99}

NoOffset == [source |-> 0, needed |-> 0, draw |-> 0, start_time |-> 0]

\* the statements that choose start_time (lines 319-332) and music_start_time
\* (lines 368-377) for a source, a voice-over and a draw of random.random()
choose_start_time(source, needed, draw) ==
    /\ chosen' = [source |-> source, needed |-> needed, draw |-> draw,
                  start_time |-> StartOffset(source, needed, draw)]
    /\ UNCHANGED <<apiVars, engVars, dirVars, schedVars, storeVars, monVars>>

OffsetInit == chosen = NoOffset

\* ============================================================ src/scrapper.py

\* the titles of the posts a subreddit returns, after expand_abbreviations
Titles == {"t1", "t2"}
\* QUEUE_SCORE_THRESHOLD, and the scores get_post_scores gives around it
QUEUE_SCORE_THRESHOLD == 7
Scores == {QUEUE_SCORE_THRESHOLD - 1, QUEUE_SCORE_THRESHOLD}
\* a post of the response: its title, whether its text is clean and of the
\* right length, the answer of is_post_policy_safe, its score
FetchedPosts ==
    [title : Titles, clean : BOOLEAN, policy_safe : BOOLEAN, score : Scores]
\* the responses of a subreddit: up to MaxBatch posts
Batches == UNION {[1..n -> FetchedPosts] : n \in 1..MaxBatch}

\* a table, by the number of its rows with a title
EmptyTable == [t \in Titles |-> 0]
Insert(table, title) == [table EXCEPT ![title] = @ + 1]

\* post_exists(cursor, title): a row with the title in either table
post_exists(queued, bad, title) == queued[title] > 0 \/ bad[title] > 0

\* the first loop over the posts of a response (lines 476-527): a post that
\* is not clean or whose title is in the database is dropped, a post the
\* policy check rejects is inserted in BadPosts and committed at once, the
\* others are collected in valid_posts
RECURSIVE Screen(_, _, _, _, _)
Screen(posts_, i, queued, bad, valid_posts) ==
    IF i > Len(posts_)
    THEN [queued |-> queued, bad |-> bad, valid_posts |-> valid_posts]
    ELSE LET post == posts_[i]
         IN IF ~post.clean \/ post_exists(queued, bad, post.title)
            THEN Screen(posts_, i + 1, queued, bad, valid_posts)
            ELSE IF ~post.policy_safe
            THEN Screen(posts_, i + 1, queued, Insert(bad, post.title), valid_posts)
            ELSE Screen(posts_, i + 1, queued, bad, Append(valid_posts, post))

\* the second loop (lines 530-569): every post of valid_posts is inserted, in
\* QueuedPosts when its score reaches the threshold, else in BadPosts
RECURSIVE StoreResults(_, _, _, _)
StoreResults(valid_posts, i, queued, bad) ==
    IF i > Len(valid_posts) THEN [queued |-> queued, bad |-> bad]
    ELSE LET post == valid_posts[i]
         IN IF post.score >= QUEUE_SCORE_THRESHOLD
            THEN StoreResults(valid_posts, i + 1, Insert(queued, post.title), bad)
            ELSE StoreResults(valid_posts, i + 1, queued, Insert(bad, post.title))

\* fetch_and_process_posts for the response of one subreddit
fetch_subreddit(posts_) ==
    /\ nFetches < MaxFetches
    /\ nFetches' = nFetches + 1
    /\ batch' = posts_
    /\ LET screened == Screen(posts_, 1, QueuedPosts, BadPosts, <<>>)
           stored == StoreResults(screened.valid_posts, 1, screened.queued,
                                  screened.bad)
       IN /\ QueuedPosts' = stored.queued
          /\ BadPosts' = stored.bad
    /\ UNCHANGED <<apiVars, engVars, dirVars, schedVars, offVars, monVars>>

StoreInit ==
    /\ QueuedPosts = EmptyTable
    /\ BadPosts = EmptyTable
    /\ batch = <<>>
    /\ nFetches = 0

\* ============================================================= src/monitor.py

\* a monitor that stays armed after an alert
check_stays_armed(was_running, is_running_now) ==
    [alert |-> was_running /\ ~is_running_now,
     was_running_last_check |-> was_running \/ is_running_now]
\* the body of "while True" after the sleep (lines 85-106): whether an alert
\* is sent, and the new value of was_running_last_check
check(was_running, is_running_now) ==
    IF was_running /\ ~is_running_now
    THEN [alert |-> TRUE, was_running_last_check |-> FALSE]
    ELSE IF ~was_running /\ is_running_now
    THEN [alert |-> FALSE, was_running_last_check |-> TRUE]
    ELSE [alert |-> FALSE, was_running_last_check |-> was_running]

\* main() up to the loop: the initial check
monitor_main(is_running_now) ==
    /\ mpc = "start"
    /\ mpc' = "loop"
    /\ was_running_last_check' = is_running_now
    /\ observed' = <<is_running_now>>
    /\ UNCHANGED <<alerts, apiVars, engVars, dirVars, schedVars, offVars, storeVars>>

\* one turn of the loop: is_script_running finds the script or not; the alert
\* is the call of send_alert_email, which only prints when the mail fails
monitor_check(is_running_now, delivered) ==
    /\ mpc = "loop"
    /\ Len(observed) <= MaxChecks
    /\ LET c == check(was_running_last_check, is_running_now)
       IN /\ was_running_last_check' = c.was_running_last_check
          /\ observed' = Append(observed, is_running_now)
          /\ alerts' = IF c.alert
                       THEN Append(alerts, [check |-> Len(observed) + 1,
                                            delivered |-> delivered])
                       ELSE alerts
    /\ UNCHANGED <<mpc, apiVars, engVars, dirVars, schedVars, offVars, storeVars>>

MonitorInit ==
    /\ mpc = "start"
    /\ was_running_last_check = FALSE
    /\ observed = <<>>
    /\ alerts = <<>>

\* ============================================================ specifications

Init ==
    /\ ApiInit /\ EngineInit /\ DirInit /\ SchedInit /\ OffsetInit
    /\ StoreInit /\ MonitorInit

Next ==
    \/ \E s \in ShortIds : generate_video(s)
    \/ process_queue_get
    \/ generate_video_sync_returns
    \/ \E e \in PipelineErrors : generate_video_sync_raises(e)
    \/ \E d \in BOOLEAN : send_webhook_returns(d)
    \/ lifespan_shutdown
    \/ orphan_thread_finishes

Spec == Init /\ [][Next]_vars

EngineNext ==
    \/ makeContent
    \/ makeContent_first_next
    \/ makeContent_step_returns
    \/ \E e \in StepErrors : makeContent_step_raises(e)
    \/ makeContent_close
    \/ \E i \in DirectSteps : stepDict_call(i)

EngineSpec == Init /\ [][EngineNext]_vars

\* the worker's calls of generate_video_sync, one after the other
WorkDirNext ==
    \/ \E s \in ShortIds : generate_video_sync_init(s)
    \/ generate_video_sync_makeContent
    \/ generate_video_sync_next
    \/ \E removed \in BOOLEAN : generate_video_sync_ends(removed)
    \/ generate_video_sync_propagates

WorkDirSpec == Init /\ [][WorkDirNext]_vars

\* the scheduler of channel_scheduler.py: the triggers and the threads of the
\* executor that run the jobs, and the fetch stage with and without
\* --force-fetch, at one reading of the clock
SchedNext ==
    \/ \E j \in PublishJobs : publish_trigger(j)
    \/ \E j \in PublishJobs : \E found \in SUBSET Posts :
           run_pipeline_once_select(j, found)
    \/ \E j \in PublishJobs : \E setup \in SetupOutcomes : \E runs \in ChannelRuns :
           run_pipeline_once_finish(j, setup, runs)
    \/ \E force \in BOOLEAN : \E found \in SUBSET Posts :
           run_fetch_job(force, fetch_interval_hours, found)

SchedSpec == Init /\ [][SchedNext]_vars

\* run_fetch_job called at any time, with and without force
FetchNext ==
    \/ Tick
    \/ \E force \in BOOLEAN : \E hours \in FetchIntervals : \E found \in SUBSET Posts :
           run_fetch_job(force, hours, found)

FetchSpec == Init /\ [][FetchNext]_vars

\* the continuous mode of start_scheduler: the fetch job and the publish jobs
\* are triggered as time passes
SchedulerNext ==
    \/ Tick
    \/ \E found \in SUBSET Posts : run_fetch_job(FALSE, fetch_interval_hours, found)
    \/ \E j \in PublishJobs : publish_trigger(j)
    \/ \E j \in PublishJobs : \E found \in SUBSET Posts :
           run_pipeline_once_select(j, found)
    \/ \E j \in PublishJobs : \E setup \in SetupOutcomes : \E runs \in ChannelRuns :
           run_pipeline_once_finish(j, setup, runs)

SchedulerSpec == Init /\ [][SchedulerNext]_vars

\* the start offset computed for every source, voice-over and draw
OffsetNext ==
    \E source \in SourceDurations : \E needed \in NeededDurations : \E draw \in Draws :
        choose_start_time(source, needed, draw)

OffsetSpec == Init /\ [][OffsetNext]_vars

\* the responses of the subreddits, one after the other
StoreNext == \E posts_ \in Batches : fetch_subreddit(posts_)

StoreSpec == Init /\ [][StoreNext]_vars

\* the process monitor: the initial check, then a check after every sleep
MonitorNext ==
    \/ \E now \in BOOLEAN : monitor_main(now)
    \/ \E now \in BOOLEAN : \E delivered \in BOOLEAN : monitor_check(now, delivered)

MonitorSpec == Init /\ [][MonitorNext]_vars

\* The worker task and the thread it awaits are scheduled and every pipeline run
\* and every POST ends: the event loop runs a ready task, asyncio.to_thread
\* resumes the worker when the thread is over.
LiveSpec ==
    /\ Spec
    /\ WF_vars(process_queue_get)
    /\ WF_vars(generate_video_sync_returns
                 \/ \E e \in PipelineErrors : generate_video_sync_raises(e))
    /\ WF_vars(\E d \in BOOLEAN : send_webhook_returns(d))

\* ================================================================== claims

\* positions of the log where event ev of job id is recorded
At(ev, id) == {p \in 1..Len(log) : log[p].ev = ev /\ log[p].id = id}
Started(id) == At("start", id) # {}
Hooked(id) == At("hook", id) # {}
Before(P, Q) == \A q \in Q : \E p \in P : p < q

\* C1: at most one job's generate_video_sync is executing, in every reachable
\* state (every interleaving of /generate with the worker's progress).
C1_AtMostOneJobExecutes == Cardinality(threads) <= 1

\* a job executes while two later submissions wait in the queue
C1_Witness == Cardinality(threads) = 1 /\ wpc = "run" /\ Len(job_queue) >= 2

\* C2: jobs start in submission order, and a job never starts before every job
\* enqueued earlier has started and has had its terminal webhook sent.
C2_FifoStartAfterTerminal ==
    \A b \in 1..nSubmitted : \A a \in 1..(b - 1) :
        Started(b) =>
            /\ Started(a) /\ Before(At("start", a), At("start", b))
            /\ Hooked(a) /\ Before(At("hook", a), At("start", b))

\* three jobs have started, two of them with the same short_id
C2_Witness ==
    /\ Started(3)
    /\ Hooked(2)
    /\ \E p \in At("hook", 1) : \E q \in At("hook", 2) :
           log[p].payload.short_id = log[q].payload.short_id

\* while the failure webhook is being sent, its payload is the raised exception's
\* message; the worker leaves a failure webhook for "get" and never ends by itself
C7_FailureWebhook ==
    (wpc = "hook" /\ outcome.kind = "raised") =>
        pending = [status |-> "failed", short_id |-> job.short_id,
                   error |-> outcome.exc.args[1]]

C7_LoopContinues ==
    /\ (wpc = "hook" /\ pending.status = "failed" /\ wpc' # wpc /\ ~cancelled') =>
           wpc' = "get"
    /\ (wpc \in {"run", "hook"} /\ ~cancelled') => wpc' \in {"run", "hook", "get"}

\* C7: an exception of the pipeline becomes a failure webhook carrying the
\* exception's message, and the worker loop goes on: after the failure webhook
\* of an uncancelled worker it waits for the next job again and takes it when
\* there is one.
C7_FailureNeverStopsWorker ==
    /\ [](C7_FailureWebhook)
    /\ [][C7_LoopContinues]_vars
    /\ []((wpc = "get" /\ job_queue # <<>>) => ENABLED process_queue_get)

\* a job failed and the worker started the next one afterwards
C7_Witness ==
    \E p, q \in 1..Len(log) :
        /\ p < q
        /\ log[p].ev = "hook" /\ log[p].info = "failed"
        /\ log[q].ev = "start" /\ log[q].id = log[p].id + 1

\* a webhook carries the output path (success) or the cause (failed)
TerminalPayloadOk(id) ==
    \A p \in At("hook", id) :
        \/ /\ log[p].payload.status = "success"
           /\ log[p].payload.video_path = FinalVideoPath(log[p].payload.short_id)
        \/ /\ log[p].payload.status = "failed"
           /\ \E e \in PipelineErrors : log[p].payload.error = e.args[1]

\* C8: without cancellation, every dequeued job gets exactly one webhook, a
\* success one with the output path or a failure one with the cause, also when
\* the POST of the success webhook fails; then task_done() once; all of it
\* before the next job is dequeued.
C8_ExactlyOneTerminal ==
    ~cancelled =>
        \A id \in 1..nSubmitted :
            Started(id) =>
                /\ Cardinality(At("start", id)) = 1
                /\ TerminalPayloadOk(id)
                /\ IF job.id = id
                   THEN /\ Cardinality(At("hook", id)) = (IF wpc = "hook" THEN 1 ELSE 0)
                        /\ At("task_done", id) = {}
                        /\ \A later \in (id + 1)..nSubmitted : ~Started(later)
                   ELSE /\ Cardinality(At("hook", id)) = 1
                        /\ Cardinality(At("task_done", id)) = 1
                        /\ Before(At("hook", id), At("task_done", id))
                        /\ \A later \in (id + 1)..nSubmitted :
                               Before(At("task_done", id), At("start", later))

\* the POST of a success webhook was lost and the worker took the next job
C8_Witness ==
    /\ ~cancelled
    /\ \E p, q, r \in 1..Len(log) :
        /\ p < q /\ q < r
        /\ log[p].ev = "hook" /\ log[p].info = "success"
        /\ log[q].ev = "task_done" /\ log[q].info = "lost" /\ log[q].id = log[p].id
        /\ log[r].ev = "start"

\* C9: with a fairly scheduled worker and terminating pipeline runs, every
\* accepted submission leads to a terminal webhook for that job, unless the
\* worker is cancelled.
C9_EverySubmissionNotified ==
    \A id \in 1..MaxJobs : (nSubmitted >= id) ~> (Hooked(id) \/ cancelled)

\* the last submission got its webhook from a worker that was never cancelled
C9_Witness == ~cancelled /\ nSubmitted = MaxJobs /\ Hooked(MaxJobs)

\* a step that accepts a submission appends to the queue and touches nothing else
C10_SubmitStep ==
    nSubmitted' # nSubmitted =>
        /\ Len(job_queue') = Len(job_queue) + 1
        /\ \A k \in 1..Len(job_queue) : job_queue'[k] = job_queue[k]
        /\ response'.status = "accepted"
        /\ UNCHANGED <<wpc, job, outcome, pending, threads, log, cancelled>>

\* C10: /generate is enabled in every state, whatever the queue depth and the
\* worker's position; it answers "accepted" and changes the queue only.
C10_SubmissionAlwaysAccepted ==
    /\ [](nSubmitted < MaxJobs =>
            \A s \in ShortIds : ENABLED generate_video(s))
    /\ [][C10_SubmitStep]_vars

\* a submission was accepted at depth 2 while a job was executing
C10_Witness ==
    /\ wpc = "run"
    /\ Len(job_queue) = 2
    /\ response.queue_position = 2
    /\ Started(1)

\* --------------------------------------------------------------- the engine

Upto(k, n) == [i \in 1..n |-> k + i]

\* C3: _db_last_completed_step never decreases, whatever makeContent() does:
\* advancing, failing in a step, or running as a fresh generator on the record.
C3_LastCompletedStepMonotonic ==
    [][rec'.db_last_completed_step >= rec.db_last_completed_step]_vars

\* a fresh generator resumed the record, advanced it and then failed in a step
C3_Witness ==
    /\ gpc = "failed"
    /\ startRec.db_last_completed_step >= 1
    /\ rec.db_last_completed_step > startRec.db_last_completed_step

\* C4: a generator created on an incomplete record with last_completed_step = k
\* < 9 calls the actions of k+1, k+2, ... in that order, each once, and none of
\* 1..k; when it ends normally it has called exactly k+1..9 and left the record
\* in the terminal state of an uninterrupted run.
C4_ResumeRunsRemainingSteps ==
    LET k == startRec.db_last_completed_step
    IN (k < TotalSteps /\ ~startRec.db_ready_to_upload /\ gpc # "none") =>
           /\ executed = Upto(k, Len(executed))
           /\ gpc = "done" =>
                 /\ executed = Upto(k, TotalSteps - k)
                 /\ Progress(rec) = [db_last_completed_step |-> TotalSteps,
                                     db_ready_to_upload |-> TRUE]

\* a generator resumed at k >= 1 and ran to the end
C4_Witness ==
    /\ gpc = "done"
    /\ startRec.db_last_completed_step \in 1..(TotalSteps - 1)
    /\ Len(executed) >= 1

\* a step taken from a complete record
C5_CompleteStep ==
    rec.db_ready_to_upload =>
        /\ rec' = rec
        /\ executed' \in {executed, <<>>}
        /\ gpc' \in {"done", "created", "closed"}

\* C5: once _db_ready_to_upload is true, driving makeContent() calls no step
\* action, changes no field of the record, yields no status and raises nothing.
C5_NoStepAfterComplete == [][C5_CompleteStep]_vars

\* a generator created on a complete record was driven and ended
C5_Witness ==
    /\ rec.db_ready_to_upload
    /\ startRec.db_ready_to_upload
    /\ gpc = "done"

\* the state a step failure leaves, and the steps a failed generator can take
C6_FailedState ==
    (gpc = "failed" /\ raised \in StepErrors) =>
        /\ executed # <<>>
        /\ executed = Upto(startRec.db_last_completed_step, Len(executed))
        /\ rec.db_last_completed_step = executed[Len(executed)] - 1
        /\ rec.db_ready_to_upload = FALSE

C6_FailedStep ==
    gpc = "failed" =>
        /\ rec' = rec
        /\ gpc' \in {"failed", "created"}
        /\ executed' \in {executed, <<>>}

\* C6: when the action of step i raises, the exception leaves makeContent(),
\* the generator has called k+1..i only (i once, nothing after it),
\* last_completed_step is still i-1, and the failed generator does nothing more.
C6_StepFailureAborts == [](C6_FailedState) /\ [][C6_FailedStep]_vars

\* a run failed in a step after completing at least one step
C6_Witness ==
    /\ gpc = "failed"
    /\ raised \in StepErrors
    /\ Len(executed) >= 2

\* --------------------------------------------------- the steps of the engine

\* the last call of a step action was a call of the step named name
RanStep(name) == run.step # 0 /\ stepDict[run.step] = name
\* the names of the operations the last call attempted
RunOps == {run.ops[k].op : k \in 1..Len(run.ops)}
TrimOps == {"ffmpeg_video", "crop_to_9_16", "ffmpeg_music"}

\* the last call of _prepareBackgroundAssets knew the voice-over duration and
\* found the background video or the background music shorter than 1.2 times it
C11_ShortBackground ==
    /\ RanStep("_prepareBackgroundAssets")
    /\ run.before.db_background_video_duration # None
    /\ rec.db_voiceover_duration # None
    /\ \/ ValueOf(run.before.db_background_video_duration) * 100
              < ValueOf(rec.db_voiceover_duration) * SafetyMarginPct
       \/ /\ world.music_duration # 0
          /\ world.music_duration * 100
                 < ValueOf(rec.db_voiceover_duration) * SafetyMarginPct

\* C11: when the background video or the background music is shorter than 1.2
\* times the voice-over, _prepareBackgroundAssets raises before it attempts any
\* trimming (ffmpeg video clip, crop, ffmpeg music clip) and before it records a
\* trimmed path, a music clip or a start offset.
C11_ShortBackgroundFailsBeforeTrimming ==
    C11_ShortBackground =>
        /\ run.exc \in {VideoTooShort, MusicTooShort}
        /\ RunOps \cap TrimOps = {}
        /\ rec.db_background_trimmed = run.before.db_background_trimmed
        /\ rec.db_background_music_clip = run.before.db_background_music_clip
        /\ rec.db_video_start_time = run.before.db_video_start_time
        /\ rec.db_music_start_time = run.before.db_music_start_time
        /\ rec.db_video_start_time = None
        /\ rec.db_music_start_time = None

\* makeContent() ran the step with a long enough video and too short a music
C11_Witness ==
    /\ C11_ShortBackground
    /\ run.by = "makeContent"
    /\ gpc = "failed"
    /\ raised = MusicTooShort
    /\ ValueOf(rec.db_background_video_duration) * 100
           >= ValueOf(rec.db_voiceover_duration) * SafetyMarginPct

\* the last call of _editAndRenderShort called renderVideo and the first call
\* ended as kind says
C12_FirstRender(kinds) ==
    /\ RanStep("_editAndRenderShort")
    /\ Len(run.ops) >= 1
    /\ run.ops[1].op = "renderVideo"
    /\ run.ops[1].animate_words
    /\ run.ops[1].overlays
    /\ run.first \in kinds

\* C12: a first renderVideo that raises the ValueError of the shape mismatch is
\* followed by exactly one more renderVideo, on the same record (its audio, its
\* trimmed background, its captions) with animate_words false and without the
\* overlays; a first renderVideo that raises anything else is the only one and
\* its exception leaves the step, which is not completed.
C12_OneSimplifiedRetryOnShapeMismatch ==
    /\ C12_FirstRender({"shape"}) =>
           /\ Len(run.ops) = 2
           /\ run.ops[2].op = "renderVideo"
           /\ ~run.ops[2].animate_words
           /\ ~run.ops[2].overlays
           /\ run.ops[2].captions = run.before.db_timed_captions
           /\ run.ops[2].audio = run.before.db_audio_path
           /\ run.ops[2].video = run.before.db_background_trimmed
           /\ run.exc # NoException => rec.db_last_completed_step < run.step
    /\ C12_FirstRender({"value_error", "os_error"}) =>
           /\ Len(run.ops) = 1
           /\ run.exc = RenderError(run.first)
           /\ rec.db_last_completed_step < run.step
           /\ rec.db_video_path = run.before.db_video_path
           /\ RenderedVideo \notin world.files

\* the first render hit the shape mismatch and the simplified one succeeded
C12_Witness ==
    /\ C12_FirstRender({"shape"})
    /\ run.exc = NoException
    /\ rec.db_last_completed_step = run.step
    /\ RenderedVideo \in world.files

\* the last call of _timeCaptions found the audio file and Whisper raised
C13_TranscriptionRaised == RanStep("_timeCaptions") /\ run.transcribed = "raises"

C14_PriorArtifactMissing ==
    \/ /\ RanStep("_timeCaptions")
       /\ run.before.db_audio_path \notin world.files
    \/ /\ RanStep("_prepareBackgroundAssets")
       /\ \/ /\ run.before.db_audio_path \notin world.files
             /\ run.before.db_voiceover_duration = None
          \/ run.before.db_background_video_duration = None
          \/ run.before.db_background_video_url = "None"
          \/ run.before.db_background_music_url = "None"

\* C14: a step run on a record whose required prior artifact is missing raises
\* the error of the precondition check (verifyParameters) and does nothing
\* else: it attempts no operation, writes no field and does not complete.
C14_MissingArtifactRaisesPreconditionError ==
    C14_PriorArtifactMissing =>
        /\ run.exc \in {ParameterRequired(k) : k \in ParameterKeys}
        /\ run.ops = <<>>
        /\ rec = run.before

\* an optional start offset, in hundredths of a second, lies between 0 and
\* source - needed, both in seconds
OffsetFits(offset, source, needed) ==
    offset # None =>
        /\ 0 <= ValueOf(offset)
        /\ ValueOf(offset) <= (source - needed) * 100

\* C15: a start offset recorded on the record, _db_video_start_time or
\* _db_music_start_time, is at least 0 and at most the duration of the
\* background it is an offset into minus the voice-over duration.
C15_StartOffsetsFit ==
    /\ rec.db_video_start_time # None =>
           OffsetFits(rec.db_video_start_time,
                      ValueOf(rec.db_background_video_duration),
                      ValueOf(rec.db_voiceover_duration))
    /\ rec.db_music_start_time # None =>
           OffsetFits(rec.db_music_start_time, world.music_duration,
                      ValueOf(rec.db_voiceover_duration))

\* both offsets are recorded and the video one was drawn at random above the
\* 15% that are skipped
C15_Witness ==
    /\ rec.db_video_start_time # None
    /\ rec.db_music_start_time # None
    /\ ValueOf(rec.db_video_start_time)
           > ValueOf(rec.db_background_video_duration) * IntroSkipPct

\* the first next() of a generator on a record whose last completed step is
\* the last step of stepDict
C16_AdvanceAtLastStep ==
    (/\ gpc = "created"
     /\ rec.db_last_completed_step = TotalSteps
     /\ gpc' \notin {"created", "closed"}) =>
        /\ gpc' = "done"
        /\ raised' = NoException
        /\ rec' = rec
        /\ executed' = <<>>

\* C16: advancing a record whose last completed step is step 9, so that the
\* next step would be step 10, ends the generator normally (completion): it
\* does not raise "Incorrect step", because such a record is always complete.
C16_AdvancePastLastStepCompletes ==
    /\ [](rec.db_last_completed_step = TotalSteps => isShortDone(rec))
    /\ [][C16_AdvanceAtLastStep]_vars

\* a generator created on a record at step 9 was advanced and ended
C16_Witness ==
    /\ gpc = "done"
    /\ startRec.db_last_completed_step = TotalSteps
    /\ NextStep(rec) > TotalSteps
    /\ raised = NoException

\* ------------------------------------------------------ the queue position

\* the jobs the worker has taken from the queue
Dequeued == {id \in 1..nSubmitted : Started(id)}

\* a step in which POST /generate is answered
C17_SubmitStep ==
    nSubmitted' = nSubmitted + 1 =>
        /\ response'.queue_position = nSubmitted' - Cardinality(Dequeued)
        /\ response'.queue_position = Len(job_queue')
        /\ response'.queue_position >= 1
        /\ job_queue'[response'.queue_position].id = nSubmitted'

\* C17: the queue_position of a response is the number of jobs submitted and
\* not yet taken by the worker, counted right after the new job was put: the
\* new job counts (so it is at least 1, and the new job is the entry at that
\* position), a job the worker is executing does not.
C17_QueuePositionIsDepth == [][C17_SubmitStep]_vars

\* a job submitted while another one executes was told position 1
C17_Witness ==
    /\ wpc = "run"
    /\ threads # {}
    /\ response # NoResponse
    /\ response.queue_position = 1
    /\ Len(job_queue) = 1
    /\ job_queue[1].id = nSubmitted
    /\ nSubmitted >= 2

\* ------------------------------------------------- the working directories

\* C18: when a call of generate_video_sync has ended, with the video moved to
\* the output folder or with a failure, the working directory of its job,
\* dynamic_assets/<short_id>/, does not exist.
C18_WorkDirRemovedAtEnd ==
    (spc = "idle" /\ ended # <<>>) => ~dirs[ended[Len(ended)].short_id].exists

\* C19: no engine overwrites, removes or reuses a file of its working
\* directory that the engine of another job has written.
C19_WorkDirExclusive == spc = "running" => world.foreign = {}

\* ------------------------------------------------------------ the scheduler

\* the publish jobs whose run_pipeline_once is running
Running == {j \in PublishJobs : cycle[j].pc # "idle"}

\* C20: at most one run_pipeline_once is running at a time, so that a cycle
\* selects, executes and marks its post before another cycle selects, and no
\* two cycles hold the same unused post.
C20_OneCycleAtATime ==
    /\ Cardinality(Running) <= 1
    /\ \A j, k \in PublishJobs :
           (j # k /\ cycle[j].pc = "selected" /\ cycle[k].pc = "selected") =>
               cycle[j].post # cycle[k].post

\* the run_pipeline_once of job j ends in this step, after it had selected
CycleEnds(j) == cycle[j].pc = "selected" /\ cycle'[j].pc = "idle"

\* C21: the cycle that ends marks its post used if and only if at least one
\* channel upload succeeded, also when other channels failed; with no
\* successful upload the post is left as it was, so that a post that was
\* unused stays unused and the next selection can return it again; no other
\* post is touched.
C21_MarkedUsedIffAnUploadSucceeded ==
    [][\A j \in PublishJobs : CycleEnds(j) =>
          LET p == cycle[j].post
              end == slog'[j][Len(slog'[j])]
          IN /\ end.post = p /\ end.job = j
             /\ end.uploaded # {} => posts'[p] = "used"
             /\ end.uploaded = {} => posts' = posts
             /\ (end.uploaded = {} /\ posts[p] = "queued") =>
                    /\ p \in Queued(posts')
                    /\ get_next_queued_post(posts') # 0
             /\ \A q \in Posts \ {p} : posts'[q] = posts[q]]_vars

\* a cycle ended with an upload that succeeded and a channel that failed, and
\* its post is used
C21_Witness ==
    \E j \in PublishJobs : \E i \in 1..Len(slog[j]) :
        /\ slog[j][i].ev = "uploaded"
        /\ slog[j][i].uploaded # {} /\ slog[j][i].failed # {}
        /\ posts[slog[j][i].post] = "used"

\* the run_pipeline_once of job j makes its selection in this step
CycleSelects(j) == cycle[j].pc = "started" /\ cycle'[j].pc # "started"

\* C22: the selection of a cycle returns none when the table holds no unused
\* post and otherwise the one unused post of the highest score, the earliest
\* created among those of that score; a post that is marked used stays used and
\* is never selected again.
C22_SelectsTopUnusedPost ==
    [][/\ \A j \in PublishJobs : CycleSelects(j) =>
            LET sel == slog'[j][Len(slog'[j])]
                unused == Queued(posts')
            IN IF unused = {}
               THEN sel.ev = "none" /\ cycle'[j] = NoCycle
               ELSE /\ sel.ev = "select" /\ cycle'[j].post = sel.post
                    /\ sel.post \in unused
                    /\ posts[sel.post] # "used"
                    /\ \A q \in unused \ {sel.post} :
                           \/ Score(q) < Score(sel.post)
                           \/ Score(q) = Score(sel.post) /\ sel.post < q
       /\ \A p \in Posts : posts[p] = "used" => posts'[p] = "used"]_vars

\* a cycle has selected a post while an earlier post of a lower score and a
\* later post of the same score were unused
C22_Witness ==
    \E j \in PublishJobs :
        /\ cycle[j].pc = "selected"
        /\ \E q \in Queued(posts) : q < cycle[j].post /\ Score(q) < Score(cycle[j].post)
        /\ \E q \in Queued(posts) : q > cycle[j].post /\ Score(q) = Score(cycle[j].post)

\* ------------------------------------------------------- the step sequence

\* a step of makeContent() that calls the action of a step
CallsAction == executed' # executed /\ executed' # <<>>

C23_AdvanceStep ==
    LET i == rec.db_last_completed_step
    IN /\ rec'.db_last_completed_step # i =>
              /\ rec'.db_last_completed_step = i + 1
              /\ gpc = "yielded" /\ currentStep = i + 1
              /\ executed' = Append(executed, i + 1)
              /\ run'.by = "makeContent" /\ run'.step = i + 1
              /\ run'.exc = NoException
       /\ CallsAction =>
              /\ executed'[Len(executed')] = i + 1
              /\ run'.before.db_last_completed_step = i
              /\ run'.exc # NoException => rec'.db_last_completed_step = i

\* C23: last_completed_step changes only from i to i+1, in the step in which
\* the action of step i+1 returned without raising; the action makeContent()
\* calls is always the one of last_completed_step + 1, so that no step is
\* skipped and the action of step N+1 starts only when step N is completed.
C23_StepsCompleteInOrder == [][C23_AdvanceStep]_vars

\* a generator completed two steps one after the other and waits before a third
C23_Witness ==
    /\ gpc = "yielded"
    /\ Len(executed) >= 2
    /\ rec.db_last_completed_step = executed[Len(executed)]
    /\ currentStep = rec.db_last_completed_step + 1

\* the status makeContent() yields for step i
StatusOf(i) ==
    <<i, 9, IF stepDict[i] = "_editAndRenderShort"
            THEN "Preparing rendering assets..." ELSE stepDict[i]>>

\* the generator is suspended at the yield of step currentStep: the consumer
\* holds the status of that step, the step before it is completed and its own
\* action has not been called
C24_Suspended ==
    gpc = "yielded" =>
        /\ currentStep = rec.db_last_completed_step + 1
        /\ status = StatusOf(currentStep)
        /\ executed = <<>> \/ executed[Len(executed)] = currentStep - 1
        /\ ENABLED makeContent_close

\* an action is called only by a next() of the generator suspended at the
\* yield of that step, and a step that yields does not call the action of the
\* step it yields
C24_CallStep ==
    /\ CallsAction =>
           /\ gpc = "yielded"
           /\ status = StatusOf(executed'[Len(executed')])
    /\ (gpc' = "yielded" /\ (gpc # "yielded" \/ currentStep' # currentStep)) =>
           /\ status' = StatusOf(currentStep')
           /\ executed' = <<>> \/ executed'[Len(executed')] # currentStep'

\* C24: for every step i makeContent() executes, the status (i =
\* last_completed_step + 1, 9, label) is yielded to the consumer before the
\* action of step i is called, and the action is called only when the consumer
\* resumes the generator for the next status.
C24_StatusBeforeAction == [](C24_Suspended) /\ [][C24_CallStep]_vars

\* the consumer received the status of a later step and dropped the generator:
\* the action of that step was never called
C24_Witness ==
    /\ gpc = "closed"
    /\ executed # <<>>
    /\ status = StatusOf(executed[Len(executed)] + 1)
    /\ rec.db_last_completed_step = executed[Len(executed)]

\* the renderVideo calls of the last call of a step action
Renders == {k \in 1..Len(run.ops) : run.ops[k].op = "renderVideo"}

\* the last call of _editAndRenderShort rendered twice and the second
\* renderVideo raised
C25_RetryFailed ==
    /\ RanStep("_editAndRenderShort")
    /\ Cardinality(Renders) >= 2
    /\ run.retry # "ok"

C25_RetryFailureLeaves ==
    C25_RetryFailed =>
        /\ run.retry \in {"shape", "value_error", "os_error"}
        /\ run.exc = RenderError(run.retry)
        /\ rec.db_last_completed_step < run.step
        /\ rec.db_video_path = run.before.db_video_path
        /\ RenderedVideo \notin world.files

\* the step in which the second renderVideo raises ends the generator with
\* that exception
C25_RetryFailureStep ==
    (CallsAction /\ C25_RetryFailed') =>
        /\ gpc' = "failed"
        /\ raised' = run'.exc
        /\ rec'.db_last_completed_step = rec.db_last_completed_step

\* C25: one execution of _editAndRenderShort calls renderVideo at most twice;
\* when the second, simplified renderVideo raises as well, whatever it raises
\* (the shape mismatch included), the exception leaves the step and ends the
\* generator, the step is not completed and nothing is rendered a third time.
C25_AtMostTwoRenders ==
    /\ [](RanStep("_editAndRenderShort") => Cardinality(Renders) <= 2)
    /\ [](C25_RetryFailureLeaves)
    /\ [][C25_RetryFailureStep]_vars

\* both renders of one execution raised the shape mismatch
C25_Witness ==
    /\ C25_RetryFailed
    /\ run.retry = "shape"
    /\ gpc = "failed"
    /\ raised = ShapeMismatch

\* ------------------------------------------------------ the start offsets

\* C26: with min_start = 0.15 * source and max_start = source - 1.1 * needed
\* (here in hundredths of a second), the start offset is min_start when
\* max_start <= min_start, whatever the draw, and lies in [min_start,
\* max_start] otherwise: in [15, 34] for source 100 and needed 60, exactly
\* 10.5 for source 70 and needed 60.
C26_StartOffsetInRange ==
    chosen # NoOffset =>
        LET min_start == chosen.source * 15
            max_start == chosen.source * 100 - chosen.needed * 110
        IN /\ max_start <= min_start => chosen.start_time = min_start
           /\ max_start > min_start =>
                  min_start <= chosen.start_time /\ chosen.start_time <= max_start
           /\ (chosen.source = 100 /\ chosen.needed = 60) =>
                  1500 <= chosen.start_time /\ chosen.start_time <= 3400
           /\ (chosen.source = 70 /\ chosen.needed = 60) => chosen.start_time = 1050

\* an offset drawn inside the range for source 100 and needed 60
C26_Witness ==
    /\ chosen.source = 100 /\ chosen.needed = 60
    /\ chosen.start_time > 1500 /\ chosen.start_time < 3400

\* ------------------------------------------------- the trims of the assets

\* the last call of a step action was _prepareBackgroundAssets and it returned
C27_AssetsCompleted == RanStep("_prepareBackgroundAssets") /\ run.exc = NoException

\* C27: whenever _prepareBackgroundAssets returns, also when it is executed
\* again on a record on which an earlier execution failed after the video clip
\* was written, the record holds both the trimmed video path and the trimmed
\* music clip path.
C27_BothTrimmedPathsRecorded ==
    C27_AssetsCompleted =>
        /\ rec.db_background_trimmed # "None"
        /\ rec.db_background_music_clip # "None"

\* the fields the trims of _prepareBackgroundAssets write
TrimFields(r) ==
    [db_background_trimmed |-> r.db_background_trimmed,
     db_background_music_clip |-> r.db_background_music_clip,
     db_video_start_time |-> r.db_video_start_time,
     db_music_start_time |-> r.db_music_start_time]

\* the last call of a step action was _prepareBackgroundAssets on a record
\* that held a trimmed path
C28_ExecutedAgain ==
    /\ RanStep("_prepareBackgroundAssets")
    /\ run.before.db_background_trimmed # "None"

\* C28: an execution of _prepareBackgroundAssets on a record that holds a
\* trimmed path calls no trim (no ffmpeg, no crop), removes and writes no clip
\* and leaves the trimmed paths and the start offsets as they were.
C28_TrimIsIdempotent ==
    C28_ExecutedAgain =>
        /\ RunOps \cap (TrimOps \cup {"remove"}) = {}
        /\ TrimFields(rec) = TrimFields(run.before)

\* the step was executed again, and returned, on a record that held the
\* cropped clip and its start offset
C28_Witness ==
    /\ C28_ExecutedAgain
    /\ run.exc = NoException
    /\ run.before.db_background_trimmed = CroppedBackground
    /\ run.before.db_video_start_time # None
    /\ rec.db_last_completed_step >= run.step

\* the calls of ffmpeg op in the last call of a step action
Calls(op) == {k \in 1..Len(run.ops) : run.ops[k].op = op}

\* in the last call of _prepareBackgroundAssets the trim of the video, or of
\* the music, did not produce its output
C29_VideoTrimFailed ==
    RanStep("_prepareBackgroundAssets") /\ run.ffmpeg \in {"video", "video_absent"}
C29_MusicTrimFailed ==
    RanStep("_prepareBackgroundAssets") /\ run.ffmpeg \in {"music", "music_absent"}

C29_TrimFailureRaises ==
    /\ C29_VideoTrimFailed =>
           /\ run.exc = (IF run.ffmpeg = "video" THEN CalledProcessError
                         ELSE VideoClipNotWritten)
           /\ Cardinality(Calls("ffmpeg_video")) = 1
           /\ Calls("crop_to_9_16") = {} /\ Calls("ffmpeg_music") = {}
           /\ rec.db_background_trimmed = "None"
           /\ rec.db_last_completed_step < run.step
    /\ C29_MusicTrimFailed =>
           /\ run.exc = (IF run.ffmpeg = "music" THEN CalledProcessError
                         ELSE MusicClipNotWritten)
           /\ Cardinality(Calls("ffmpeg_video")) = 1
           /\ Cardinality(Calls("ffmpeg_music")) = 1
           /\ rec.db_background_music_clip = "None"
           /\ rec.db_last_completed_step < run.step

\* the step in which a trim fails ends the generator with the exception, and
\* a generator that has failed calls nothing more
C29_TrimFailureStep ==
    /\ (CallsAction /\ (C29_VideoTrimFailed' \/ C29_MusicTrimFailed')) =>
           gpc' = "failed" /\ raised' = run'.exc
    /\ gpc = "failed" => (run' = run /\ rec' = rec /\ world' = world)

\* C29: when the ffmpeg call of the video trim or of the music trim fails, or
\* returns without its output file, _prepareBackgroundAssets raises, the step is
\* not completed and the run of makeContent() ends with the exception; the trim
\* is called once and nothing calls it, or the step, again by itself.
C29_TrimFailureIsFinal == [](C29_TrimFailureRaises) /\ [][C29_TrimFailureStep]_vars

\* the music trim returned without its output file and the run has failed
C29_Witness ==
    /\ C29_MusicTrimFailed
    /\ run.ffmpeg = "music_absent"
    /\ gpc = "failed"
    /\ raised = MusicClipNotWritten

\* --------------------------------------------------------- the voice-over

\* what an execution of _generateTempAudio would do in the current state
C30_Again(env) == generateTempAudio(rec, world, env)

\* an execution of _generateTempAudio on a record whose audio path is set
\* calls nothing and changes nothing
C30_SkipsWhenPathSet ==
    rec.db_temp_audio_path # "" =>
        \A env \in StepEnvs(2) :
            /\ C30_Again(env).exc = NoException
            /\ C30_Again(env).ops = <<>>
            /\ C30_Again(env).rec = rec
            /\ C30_Again(env).world = world

\* C30 as stated: the voice module is called at most once per record over any
\* sequence of executions of the step, and an execution on a record whose
\* audio path is set leaves the path unchanged.
C30_VoiceModuleCalledAtMostOnce ==
    /\ world.voice_calls # "again"
    /\ C30_SkipsWhenPathSet

\* C30, amended: the voice module is called only by an execution that finds
\* no audio path on the record, once in that execution; it returns a path at
\* most once per record, after which no execution calls it again; an execution
\* on a record whose audio path is set calls nothing and changes nothing.
C30_VoiceModuleReturnsAtMostOnce ==
    /\ world.voice_returns # "again"
    /\ (world.voice_returns = "once") = (rec.db_temp_audio_path # "")
    /\ (RanStep("_generateTempAudio") /\ Calls("generate_voice") # {}) =>
           /\ run.before.db_temp_audio_path = ""
           /\ Cardinality(Calls("generate_voice")) = 1
    /\ C30_SkipsWhenPathSet

\* the voice module raised in one execution and returned the path in a later
\* execution on the same record
C30_Witness ==
    /\ world.voice_calls = "again"
    /\ world.voice_returns = "once"
    /\ rec.db_temp_audio_path = TempAudio
    /\ rec.db_last_completed_step >= 2

\* the last call of a step action was _generateTempAudio and generate_voice
\* returned a path at which there is no file
C31_VoiceFileAbsent == RanStep("_generateTempAudio") /\ run.voice = "absent"

\* C31: when generate_voice returns without the audio file existing,
\* _generateTempAudio raises: the step is not completed and
\* last_completed_step does not advance.
C31_AbsentVoiceFileFailsStep ==
    C31_VoiceFileAbsent =>
        /\ run.exc # NoException
        /\ rec.db_last_completed_step < run.step

\* ------------------------------------------------------------ a stalled job

\* the pipeline of the dequeued job is running and its worker is not cancelled
C32_InFlight == wpc = "run" /\ job.id \in threads

\* while the pipeline of the in-flight job has not returned, no job waiting
\* behind it has started or got a webhook, and the in-flight job has no webhook
C32_NothingBehindStarts ==
    C32_InFlight =>
        /\ ~Hooked(job.id)
        /\ \A k \in 1..Len(job_queue) :
               ~Started(job_queue[k].id) /\ ~Hooked(job_queue[k].id)
        /\ nSubmitted < MaxJobs => \A s \in ShortIds : ENABLED generate_video(s)

\* a step taken while the pipeline runs on only accepts a submission, which
\* makes the queue longer; the worker leaves the wait only when the thread has
\* ended or the worker is cancelled
C32_StalledStep ==
    /\ (threads # {} /\ threads' = threads /\ ~cancelled') =>
           /\ log' = log
           /\ wpc' = wpc /\ job' = job
           /\ Len(job_queue') >= Len(job_queue)
           /\ \A k \in 1..Len(job_queue) : job_queue'[k] = job_queue[k]
    /\ (C32_InFlight /\ wpc' # "run") => (threads' # threads \/ cancelled')

\* C32: nothing ends the wait for a pipeline that does not return: while the
\* in-flight job's generate_video_sync runs, no queued job starts and no
\* webhook is sent for any job, submissions are still accepted and the queue
\* only grows.
C32_StalledJobBlocksQueue == [](C32_NothingBehindStarts) /\ [][C32_StalledStep]_vars

\* the second job is in flight, the first has ended, and a third submission was
\* accepted behind it
C32_Witness ==
    /\ C32_InFlight
    /\ job.id = 2
    /\ Hooked(1)
    /\ Len(job_queue) = 1
    /\ job_queue[1].id = 3
    /\ response.queue_position = 1

\* ------------------------------------------------------ after the shutdown

\* the events of the log that a worker at work would add
C33_WorkEvents == {p \in 1..Len(log) : log[p].ev \in {"start", "hook"}}

\* a step after the cancellation dequeues nothing and starts or notifies no job
C33_AfterCancel ==
    cancelled =>
        /\ cancelled'
        /\ wpc' = "cancelled"
        /\ job' = job
        /\ Len(job_queue') >= Len(job_queue)
        /\ \A k \in 1..Len(job_queue) : job_queue'[k] = job_queue[k]
        /\ C33_WorkEvents' = C33_WorkEvents

\* the jobs whose task_done came from the cancellation
C33_CutShort ==
    {log[p].id : p \in {q \in 1..Len(log) :
                           log[q].ev = "task_done" /\ log[q].info = "cancelled"}}

\* the cancelled worker holds no job, and at most one job was cut short
C33_WorkerGone ==
    cancelled => wpc = "cancelled" /\ job = NoJob /\ Cardinality(C33_CutShort) <= 1

\* C33: after task.cancel() at shutdown the worker takes no job from the queue
\* and starts none; the job in flight at the cancellation gets task_done only,
\* its webhook is not sent afterwards.
C33_CancelledWorkerStops == [](C33_WorkerGone) /\ [][C33_AfterCancel]_vars

\* a job was cut short while its pipeline ran: it has no webhook, its thread has
\* ended since, and another job is still in the queue
C33_Witness ==
    /\ cancelled
    /\ threads = {}
    /\ Len(job_queue) >= 1
    /\ \E id \in C33_CutShort : Started(id) /\ ~Hooked(id)

\* ------------------------------------------------------- the fetch cooldown

\* this step is a call of run_fetch_job
C34_Call ==
    /\ clock' = clock /\ cycle' = cycle /\ nTriggers' = nTriggers
    /\ fetch'.returned # "none"

\* the new posts a fetch inserted in this step
C34_Inserted == {p \in Posts : posts[p] = "absent" /\ posts'[p] = "queued"}

\* the cooldown of the call is over: nothing is recorded, or the hours of the
\* call have elapsed since the recorded time
C34_CooldownOver ==
    \/ last_fetch_time = None
    \/ clock - last_fetch_time[1] * TicksPerSecond >= fetch'.hours * HourTicks

C34_RunFetchJob ==
    C34_Call =>
        IF fetch'.force \/ C34_CooldownOver
        THEN /\ fetch'.invoked
             /\ fetch'.returned = "True"
             /\ last_fetch_time' = Some(clock \div TicksPerSecond)
             /\ posts' = fetch_and_process_posts(posts, C34_Inserted)
        ELSE /\ ~fetch'.invoked
             /\ fetch'.returned = "False"
             /\ last_fetch_time' = last_fetch_time
             /\ posts' = posts

\* C34: run_fetch_job without force fetches if and only if no last fetch time
\* is recorded or at least fetch_interval_hours have elapsed since it, and with
\* force always; a call that fetches records the time of the call, to the
\* second, and returns True, a call that skips changes neither the record nor
\* the posts and returns False.
C34_FetchIffCooldownOver == [][C34_RunFetchJob]_vars

\* an unforced call with an interval of two hours skipped one hour after the
\* recorded fetch, which had queued posts
C34_Witness ==
    /\ fetch = [force |-> FALSE, hours |-> 2, invoked |-> FALSE, returned |-> "False"]
    /\ last_fetch_time = Some(0)
    /\ clock = HourTicks
    /\ Queued(posts) # {}

\* an unforced call fetched one hour after the recorded second
C34_FetchedAgain ==
    /\ fetch = [force |-> FALSE, hours |-> 1, invoked |-> TRUE, returned |-> "True"]
    /\ last_fetch_time = Some(SecondsPerHour)
    /\ clock = HourTicks + 1

\* a call of fetch_and_process_posts in this step: by run_fetch_job, or by the
\* refill of a publish cycle that found the queue empty
C35_Invocation ==
    \/ C34_Call /\ fetch'.invoked
    \/ \E j \in PublishJobs :
           /\ cycle[j].pc = "started" /\ cycle'[j] # cycle[j]
           /\ \E i \in 1..Len(slog'[j]) : slog'[j][i].ev = "refill"

C35_Cooldown ==
    C35_Invocation =>
        /\ \/ last_fetch_time = None
           \/ clock - last_fetch_time[1] * TicksPerSecond
                  >= fetch_interval_hours * HourTicks
        /\ last_fetch_time' = Some(clock \div TicksPerSecond)

\* C35: in the continuous mode every call of fetch_and_process_posts, by the
\* fetch trigger or by a publish trigger, comes no sooner than
\* fetch_interval_hours after the recorded time of the previous call and
\* records its own time in last_fetch_time.
C35_EveryRefillRespectsCooldown == [][C35_Cooldown]_vars

\* ------------------------------------------------------ the reported video

\* the call of generate_video_sync ends in this step
C36_CallEnds == spc = "running" /\ spc' = "idle"

\* the call returns the path of the moved video, which the success webhook
\* reports, exactly when the pipeline ended and _saveVideo had found the
\* rendered file and moved it to the recorded path; the video moved to the
\* output folder is that file
C36_SuccessIffRendered ==
    C36_CallEnds =>
        LET end == ended'[Len(ended')]
            saved == rec.db_video_path = SavedVideo /\ world.saved # 0
        IN /\ Len(ended') = Len(ended) + 1
           /\ end.id = sjob.id
           /\ end.status \in {"success", "failed"}
           /\ end.status = "success" <=> (gpc = "done" /\ saved)
           /\ end.status = "success" => end.content = world.saved
           /\ (gpc = "done" /\ run.step = TotalSteps /\ ~run.rendered) =>
                  end.status = "failed"

\* when the pipeline is done, _saveVideo has moved a file exactly when the
\* rendered file was there
C36_SavedIffRendered ==
    (gpc = "done" /\ spc = "running") =>
        /\ run.step = TotalSteps /\ rec.db_ready_to_upload
        /\ run.rendered <=> (rec.db_video_path = SavedVideo /\ world.saved # 0)

\* C36: generate_video_sync returns a path, so that the success webhook is
\* sent, only when the pipeline ended with the rendered file moved by
\* _saveVideo and found at the recorded video path; a pipeline that is done
\* without a rendered file ends with FileNotFoundError, the failed webhook.
C36_SuccessOnlyWithRenderedFile ==
    [](C36_SavedIffRendered) /\ [][C36_SuccessIffRendered]_vars

\* a pipeline completed step 9 with no rendered file and its call ended failed
C36_Witness ==
    /\ spc = "idle"
    /\ gpc = "done"
    /\ rec.db_ready_to_upload
    /\ rec.db_last_completed_step = TotalSteps
    /\ ~run.rendered
    /\ ended # <<>>
    /\ ended[Len(ended)].id = sjob.id
    /\ ended[Len(ended)].status = "failed"

\* ------------------------------------------------------- the trim window

\* the length, in hundredths of a second, of the clip ffmpeg is asked for:
\* "-t voiceover_duration + 1"
C37_ClipLength == (chosen.needed + 1) * 100

\* C37: for a background video that passes the 1.2x duration check, the trim
\* window [start_time, start_time + voiceover_duration + 1] lies inside
\* [0, background_video_duration], for every voice-over and every draw.
C37_TrimWindowInsideVideo ==
    (chosen.source # 0 /\ ~TooShort(chosen.source, chosen.needed)) =>
        /\ chosen.start_time >= 0
        /\ chosen.start_time + C37_ClipLength <= chosen.source * 100

\* ------------------------------------------------------- the stored titles

\* the number of rows with a title in both tables together
C38_Rows(t) == QueuedPosts[t] + BadPosts[t]

\* no title is stored more than once
C38_TitlesUnique == \A t \in Titles : C38_Rows(t) <= 1

\* the posts of the response that may be stored in the table of the queue,
\* and those that may be stored with the bad posts
C38_Passed(posts_, t) ==
    \E i \in 1..Len(posts_) :
        /\ posts_[i].title = t /\ posts_[i].clean /\ posts_[i].policy_safe
        /\ posts_[i].score >= QUEUE_SCORE_THRESHOLD
C38_Failed(posts_, t) ==
    \E i \in 1..Len(posts_) :
        /\ posts_[i].title = t /\ posts_[i].clean
        /\ ~(posts_[i].policy_safe /\ posts_[i].score >= QUEUE_SCORE_THRESHOLD)

\* a run inserts a title at most once, in QueuedPosts iff a post with the
\* title passed the policy check with a score at the threshold or above
C38_Placed ==
    nFetches' = nFetches + 1 =>
        \A t \in Titles :
            /\ QueuedPosts'[t] >= QueuedPosts[t] /\ BadPosts'[t] >= BadPosts[t]
            /\ C38_Rows(t)' <= C38_Rows(t) + 1
            /\ C38_Rows(t) > 0 => C38_Rows(t)' = C38_Rows(t)
            /\ QueuedPosts'[t] > QueuedPosts[t] => C38_Passed(batch', t)
            /\ BadPosts'[t] > BadPosts[t] => C38_Failed(batch', t)

\* C38: after any sequence of fetch_and_process_posts runs no title occurs
\* more than once across QueuedPosts and BadPosts together, also when a title
\* appears twice in one response, and every inserted post is in exactly one
\* table: QueuedPosts iff it passed the policy check with a score of at
\* least QUEUE_SCORE_THRESHOLD.
C38_NoTitleStoredTwice == [](C38_TitlesUnique) /\ [][C38_Placed]_vars

\* ------------------------------------------------------------- the monitor

\* the checks that observed the script dead right after a check that had
\* observed it running
C39_Deaths ==
    {i \in 2..Len(observed) : observed[i - 1] /\ ~observed[i]}

C39_AlertChecks == {alerts[k].check : k \in 1..Len(alerts)}

\* C39: the monitor calls send_alert_email exactly once for each observed
\* transition of the script from running to not running: at the check that
\* observes it, not before the script was observed running, not again while
\* the script stays dead, and again only after a check observed it running.
C39_OneAlertPerDeath ==
    /\ C39_AlertChecks = C39_Deaths
    /\ Len(alerts) = Cardinality(C39_Deaths)
    /\ mpc = "loop" => was_running_last_check = observed[Len(observed)]

\* the script was not running at the initial check, was then observed
\* running, dead for two checks, running again and dead again: two alerts
C39_Witness ==
    /\ observed = <<FALSE, TRUE, FALSE, FALSE, TRUE, FALSE>>
    /\ C39_AlertChecks = {3, 6}
    /\ Len(alerts) = 2

====
